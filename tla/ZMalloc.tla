------------------------------ MODULE ZMalloc ------------------------------
(***************************************************************************)
(* The allocator zmalloc (zmalloc.h): blocks of the system cut into chunks *)
(* that tile them, free chunks in size bins with a bitmap of the non-empty *)
(* bins, one chunk per level that small requests are carved from (dv_),    *)
(* direct blocks for large requests, slots of one size, and a cache of     *)
(* released blocks.  Not thread safe: one call is one step.                *)
(*                                                                         *)
(* An address is <<block, offset>>; memory is the function from the        *)
(* addresses of the chunk headers to the headers.  The sizes of the code   *)
(* (16 byte grains, 64 bins, 8M blocks) are constants, every size derived  *)
(* from them is derived here as the code derives it.  The doubly linked    *)
(* lists are sequences whose first element is next_node of the list head.  *)
(***************************************************************************)
EXTENDS Integers, Sequences, FiniteSets, FiniteSetsExt, SequencesExt

CONSTANTS FINE_GRAINED_SIZE,  \* 16 in the code
          BINMAP_SIZE,        \* 64
          BIG_MAX_REQUEST,    \* 512K
          DEFAULT_BLOCK_SIZE, \* 8M
          PowerOf2,           \* block_power_is_2_
          MaxReserve,         \* max_reserve_block_count_
          Requests, Colors,   \* what callers ask alloc_memory for
          Slots, SlotRequests,\* slot ids; <<bytes, block_size>> asked of alloc_slot
          SLOT_BINMAP_SIZE,
          MaxBlocks,          \* bound: blocks the system can give at a time
          MaxLive,            \* bound: allocations alive at a time
          MaxErrors           \* bound: errors counted

FINE == FINE_GRAINED_SIZE
CHUNK_PADDING_SIZE == FINE                      \* sizeof(chunk_type)
CHUNK_FREE_SIZE == 2 * FINE                     \* sizeof(free_chunk_type)
BLOCK_TYPE_SIZE == 2 * FINE                     \* sizeof(block_type)
SMALL_LEAST_SIZE == FINE + CHUNK_PADDING_SIZE
SMALL_MAX_REQUEST == BINMAP_SIZE * FINE
BIG_LEAST_SIZE == SMALL_MAX_REQUEST + CHUNK_PADDING_SIZE
BlockOverhead == BLOCK_TYPE_SIZE + 2 * CHUNK_FREE_SIZE

IsPowerOf2(n) == \E k \in 0 .. 31 : n = 2^k

MaxBytes == 2^30          \* bound: of a request, below the 32 bits of a size

(* The static_asserts of the class and what else holds of its constants    *)
ASSUME ZMallocAssumption ==
    /\ IsPowerOf2(FINE) /\ IsPowerOf2(BINMAP_SIZE) /\ BINMAP_SIZE >= 8
    /\ IsPowerOf2(DEFAULT_BLOCK_SIZE) /\ DEFAULT_BLOCK_SIZE <= MaxBytes
    /\ IsPowerOf2(BIG_MAX_REQUEST) /\ BIG_MAX_REQUEST >= 2 * SMALL_MAX_REQUEST
    /\ BIG_MAX_REQUEST % SMALL_MAX_REQUEST = 0
    /\ BIG_MAX_REQUEST + CHUNK_PADDING_SIZE + BlockOverhead <= DEFAULT_BLOCK_SIZE
    /\ Requests \subseteq 0 .. MaxBytes /\ Colors \subseteq Nat /\ IsFiniteSet(Colors)
    /\ \A r \in SlotRequests : r[1] \in 0 .. MaxBytes /\ r[2] \in 0 .. MaxBytes
    /\ {MaxReserve, SLOT_BINMAP_SIZE, MaxBlocks, MaxLive, MaxErrors} \subseteq Nat
    /\ PowerOf2 \in BOOLEAN

VARIABLES z,        \* the zmalloc object and the chunk headers in its blocks
          live      \* history: address handed out |-> what was asked for

vars == <<z, live>>

-----------------------------------------------------------------------------
(* The bit macros *)

FirstBitIndex(n) == CHOOSE k \in 0 .. 31 : 2^k <= n /\ n < 2^(k + 1)
AlignValue(n, up) == ((n + up - 1) \div up) * up
CeilPowerOf2(n) == IF n <= 1 THEN n ELSE 2^(FirstBitIndex(n - 1) + 1)
FillRight(n) == 2^(FirstBitIndex(n) + 1) - 1

AlignThirdBit(n) == n + FillRight(n) \div 8
ThirdBitOrder(n) == FirstBitIndex(n) - 2
ThirdSequence(order, n) == (4 * order) + ((n \div 2^order) % 4)

(* 32 in the code: the sequence number of SMALL_MAX_REQUEST *)
SequenceBase == ThirdSequence(ThirdBitOrder(SMALL_MAX_REQUEST), SMALL_MAX_REQUEST)
Compress(seq) == seq - SequenceBase
ResolveOrderSize(bin) ==
    (4 + ((bin + SequenceBase) % 4)) * 2^((bin + SequenceBase) \div 4)

(* The bins for big chunks reach up to the size of a block, and the size   *)
(* of the last one is a number of 30 bits.                                 *)
ASSUME BinsAssumption ==
    /\ Compress(ThirdSequence(ThirdBitOrder(DEFAULT_BLOCK_SIZE), DEFAULT_BLOCK_SIZE))
         <= BINMAP_SIZE
    /\ BINMAP_SIZE + SequenceBase <= 4 * 28

-----------------------------------------------------------------------------
(* Headers and the state of the object *)

\* f with v at x; f without what lies at the members of set.
Put(f, x, v) == [y \in DOMAIN f \cup {x} |-> IF y = x THEN v ELSE f[y]]
Without(f, set) == [y \in DOMAIN f \ set |-> f[y]]

\* A node leaves the list it is linked into.
Unlink(list, node) ==
    IF node \in ToSet(list) THEN RemoveAt(list, CHOOSE i \in DOMAIN list : list[i] = node)
    ELSE list

NULL == <<>>
Flags == {"BIG", "DIRECT", "SLOT", "USED"}
Levels == {0, 1}
Bins == 0 .. BINMAP_SIZE - 1
BlockIds == 1 .. MaxBlocks
SlotIds == 0 .. SLOT_BINMAP_SIZE - 1

Has(s, c, flag) == flag \in s.mem[c].flags
InUse(s, c) == Has(s, c, "USED")
Level(s, c) == IF Has(s, c, "BIG") THEN 1 ELSE 0
This(s, c) == s.mem[c].this
FrontOf(s, c) == <<c[1], c[2] - s.mem[c].prev>>
NextOf(s, c) == <<c[1], c[2] + s.mem[c].this>>
BlockHead(b) == <<b, BLOCK_TYPE_SIZE>>
FirstChunk(b) == <<b, BLOCK_TYPE_SIZE + CHUNK_FREE_SIZE>>

Header(prev, this, flags) ==
    [prev |-> prev, this |-> this, flags |-> flags, bin |-> 0, color |-> 0]

(* init(): the object cleared, every list empty *)
InitObject ==
    [inited |-> TRUE, panicked |-> FALSE, errors |-> 0,
     mem |-> <<>>, size |-> <<>>,               \* headers; block_size
     used |-> <<>>, reserve |-> <<>>,           \* used_block_list_, reserve_block_list_
     bitmap |-> [l \in Levels |-> {}],
     bin |-> [l \in Levels |-> [b \in Bins |-> <<>>]],
     dv |-> [l \in Levels |-> NULL],
     slot |-> [i \in SlotIds |-> [user |-> 0, block |-> 0, max |-> 0, bytes |-> 0]],
     slot_bin |-> [i \in SlotIds |-> <<>>],
     bytes |-> 0,             \* alloc_total_bytes_ - free_total_bytes_
     counter |-> [x \in Colors \X Levels \X Bins |-> 0]]
                              \* alloc_counter_ - free_counter_

Init ==
    /\ z = [InitObject EXCEPT !.inited = FALSE]
    /\ live = <<>>

-----------------------------------------------------------------------------
(* Blocks *)

(* default_block_alloc, or the callback: a block, or NULL *)
SysBlocks(s) == BlockIds \ (ToSet(s.used) \cup ToSet(s.reserve))

BlockBytes(bytes, flags) ==
    LET total == bytes + BlockOverhead + CHUNK_PADDING_SIZE IN
    IF "DIRECT" \notin flags THEN DEFAULT_BLOCK_SIZE
    ELSE IF "SLOT" \in flags \/ PowerOf2 THEN CeilPowerOf2(total)
    ELSE AlignValue(total, FINE)

(* alloc_block: the new state and the first chunk, or NULL *)
AllocBlock(s, bytes, flags) ==
    LET n == BlockBytes(bytes, flags)
        cached == "DIRECT" \notin flags /\ s.reserve # <<>>
    IN IF ~cached /\ SysBlocks(s) = {} THEN [s |-> s, c |-> NULL]
       ELSE LET b == IF cached THEN Head(s.reserve) ELSE Min(SysBlocks(s))
                first == FirstChunk(b)
                tail == <<b, n - CHUNK_FREE_SIZE>>
                edge == flags \cup {"USED"}
                this == n - BlockOverhead
                head == Put(s.mem, BlockHead(b), Header(0, CHUNK_FREE_SIZE, edge))
                ends == Put(head, tail, Header(this, CHUNK_FREE_SIZE, edge))
            IN [s |-> [s EXCEPT
                         !.reserve = IF cached THEN Tail(@) ELSE @,
                         !.used = <<b>> \o @,
                         !.size = Put(@, b, n),
                         !.mem = Put(ends, first, Header(CHUNK_FREE_SIZE, this, flags))],
                c |-> first]

(* Nothing reads the headers of a block that is not in use any more. *)
Forget(f, b) == [c \in {c \in DOMAIN f : c[1] # b} |-> f[c]]

(* free_block: the block leaves the used list and is cached or given back *)
FreeBlock(s, b) ==
    LET keep == ~Has(s, FirstChunk(b), "DIRECT") /\ Len(s.reserve) < MaxReserve IN
    [s EXCEPT !.used = Unlink(@, b),
              !.reserve = IF keep THEN <<b>> \o @ ELSE @,
              !.size = IF keep THEN @ ELSE Without(@, {b}),
              !.mem = Forget(@, b)]

-----------------------------------------------------------------------------
(* Bins *)

PushChunk(s, c, bin) ==
    LET l == Level(s, c) IN
    [s EXCEPT !.bitmap[l] = @ \cup {bin},
              !.bin[l][bin] = <<c>> \o @,
              !.mem[c].bin = bin,
              !.mem[c].flags = @ \ {"USED"}]

SmallBin(size) ==
    LET id == (size - CHUNK_PADDING_SIZE) \div FINE
    IN IF id >= BINMAP_SIZE THEN BINMAP_SIZE - 1 ELSE id

BigBin(size) ==
    LET bytes == size - CHUNK_PADDING_SIZE
    IN Compress(ThirdSequence(ThirdBitOrder(bytes), bytes))

PushSmall(s, c) == PushChunk(s, c, SmallBin(This(s, c)))
PushBig(s, c) == PushChunk(s, c, BigBin(This(s, c)))

\* Mutant: the bit of a bin that became empty stays set.
PickKeepBit(s, c) ==
    [s EXCEPT !.bin[Level(s, c)][s.mem[c].bin] = Unlink(@, c)]

PickChunk(s, c) ==
    LET l == Level(s, c)
        id == s.mem[c].bin
        rest == Unlink(s.bin[l][id], c)
    IN [s EXCEPT !.bin[l][id] = rest,
                 !.mem[c].bin = 0,      \* read again only when it is set again
                 !.bitmap[l] = IF rest = <<>> THEN @ \ {id} ELSE @]

(* exploit_new_chunk: the new chunk is cut from the end of the old one *)
NewChunk(s, c, size) == <<c[1], c[2] + This(s, c) - size>>

ExploitNewChunk(s, c, size) ==
    LET left == This(s, c) - size
        cut == [s.mem EXCEPT ![c].this = left, ![NextOf(s, c)].prev = size]
    IN [s EXCEPT !.mem = Put(cut, NewChunk(s, c, size), Header(left, size, s.mem[c].flags))]

-----------------------------------------------------------------------------
(* alloc_memory *)

(* SMALL_RETURN, BIG_RETURN: the chunk is handed out *)
HandOut(s, c, bin, color) ==
    [s |-> [s EXCEPT !.mem[c].flags = @ \cup {"USED"},
                     !.mem[c].color = color,
                     !.mem[c].bin = bin,
                     !.counter[<<color, Level(s, c), bin>>] = @ + 1,
                     !.bytes = @ + This(s, c)],
     c |-> c]

CarveOut(s, c, size, bin, color) ==
    HandOut(ExploitNewChunk(s, c, size), NewChunk(s, c, size), bin, color)

(* The first chunk of the lowest bin at or above bin, or of a new block *)
Fetch(s, l, bin, size) ==
    LET above == {b \in s.bitmap[l] : b >= bin}
        c == Head(s.bin[l][Min(above)])
    IN IF above # {} THEN [s |-> PickChunk(s, c), c |-> c]
       ELSE AllocBlock(s, size, IF l = 1 THEN {"BIG"} ELSE {})

SmallId(req) == IF req < FINE THEN 1 ELSE (req + FINE - 1) \div FINE

CanSplit(s, d, size, least) == d # NULL /\ This(s, d) >= size + least
Fits(s, d, size) == d # NULL /\ This(s, d) >= size

SmallAlloc(s, req, color) ==
    LET id == SmallId(req)
        size == id * FINE + CHUNK_PADDING_SIZE
        near == s.bitmap[0] \cap {id, id + 1}
        c == Head(s.bin[0][Min(near)])
        d == s.dv[0]
        f == Fetch(s, 0, id, size)
        kept == IF d = NULL THEN f.s ELSE PushSmall(f.s, d)
    IN CASE near # {} -> HandOut(PickChunk(s, c), c, id, color)
         [] near = {} /\ CanSplit(s, d, size, SMALL_LEAST_SIZE) ->
              CarveOut(s, d, size, id, color)
         [] near = {} /\ ~CanSplit(s, d, size, SMALL_LEAST_SIZE) /\ Fits(s, d, size) ->
              HandOut([s EXCEPT !.dv[0] = NULL], d, id, color)
         [] OTHER ->
              IF f.c = NULL THEN f
              ELSE CarveOut([kept EXCEPT !.dv[0] = f.c], f.c, size, id, color)

(* A big request is rounded up to a size whose binary digits below the     *)
(* third are zero; the bin of that size is the first whose chunks all fit. *)
BigRounded(req) == AlignThirdBit(AlignValue(req, SMALL_MAX_REQUEST \div 4))
BigId(req) ==
    LET n == BigRounded(req) IN Compress(ThirdSequence(ThirdBitOrder(n), n))
BigSize(req) ==
    LET n == BigRounded(req)
        unit == 2^ThirdBitOrder(n)
    IN (n \div unit) * unit + CHUNK_PADDING_SIZE

BigAlloc(s, req, color) ==
    LET id == BigId(req)
        size == BigSize(req)
        c == Head(s.bin[1][id])
        d == s.dv[1]
        f == Fetch(s, 1, id, size)
        kept == IF d = NULL THEN f.s ELSE PushBig(f.s, d)
    IN CASE id \in s.bitmap[1] -> HandOut(PickChunk(s, c), c, id, color)
         [] id \notin s.bitmap[1] /\ CanSplit(s, d, size, BIG_LEAST_SIZE) ->
              CarveOut(s, d, size, id, color)
         [] id \notin s.bitmap[1] /\ ~CanSplit(s, d, size, BIG_LEAST_SIZE) /\ Fits(s, d, size) ->
              HandOut([s EXCEPT !.dv[1] = NULL], d, id, color)
         [] OTHER ->
              CASE f.c = NULL -> f
                [] f.c # NULL /\ CanSplit(f.s, f.c, size, BIG_LEAST_SIZE) ->
                     CarveOut([kept EXCEPT !.dv[1] = f.c], f.c, size, id, color)
                [] OTHER -> HandOut(f.s, f.c, id, color)

(* The counters of direct chunks: all that are larger than the last bin    *)
(* share it, and their bytes are kept in a bin of their own.               *)
BIG_MAX_BIN_ID == BINMAP_SIZE - 2
BIG_LOG_BYTES_BIN_ID == BINMAP_SIZE - 1
DirectBin(req) ==
    BigId(Min({AlignValue(req, SMALL_MAX_REQUEST \div 4), ResolveOrderSize(BIG_MAX_BIN_ID)}))

DirectAlloc(s, req, color) ==
    LET f == AllocBlock(s, req + CHUNK_PADDING_SIZE + SMALL_LEAST_SIZE, {"DIRECT", "BIG"})
        id == DirectBin(req)
        h == HandOut(f.s, f.c, id, color)
    IN CASE f.c = NULL -> f
         [] f.c # NULL /\ id = BIG_MAX_BIN_ID ->
              [h EXCEPT !.s.counter[<<color, 1, BIG_LOG_BYTES_BIN_ID>>] = @ + This(f.s, f.c)]
         [] OTHER -> h

Ready(s) == IF s.inited THEN s ELSE InitObject

Alloc(s, req, color) ==
    CASE req < SMALL_MAX_REQUEST - FINE -> SmallAlloc(Ready(s), req, color)
      [] req >= SMALL_MAX_REQUEST - FINE /\ req < BIG_MAX_REQUEST ->
           BigAlloc(Ready(s), req, color)
      [] OTHER -> DirectAlloc(Ready(s), req, color)

Lent(r, req, slot) ==
    IF r.c = NULL THEN live ELSE Put(live, r.c, [req |-> req, slot |-> slot])

AllocMemory(req, color) ==
    /\ ~z.panicked
    /\ Cardinality(DOMAIN live) < MaxLive
    /\ LET r == Alloc(z, req, color) IN
         /\ z' = r.s
         /\ live' = Lent(r, req, FALSE)

-----------------------------------------------------------------------------
(* free_memory *)

(* The second chunk becomes part of the first, in front of it *)
Merge(s, c, d) ==
    LET this == This(s, c) + This(s, d)
        grown == [s.mem EXCEPT ![c].this = this,
                               ![c].flags = @ \cup s.mem[d].flags,
                               ![NextOf(s, d)].prev = this]
    IN [s EXCEPT !.mem = Without(grown, {d})]

\* Mutant: a free chunk in front is not merged.
MergeFrontNever(s, c, l) == [s |-> s, c |-> c]

MergeFront(s, c, l) ==
    LET p == FrontOf(s, c) IN
    IF InUse(s, p) THEN [s |-> s, c |-> c]
    ELSE [s |-> Merge(IF p = s.dv[l] THEN s ELSE PickChunk(s, p), p, c), c |-> p]

MergeNext(s, c, l) ==
    LET n == NextOf(s, c) IN
    IF InUse(s, n) THEN s
    ELSE IF n = s.dv[l] THEN Merge([s EXCEPT !.dv[l] = c], c, n)
    ELSE Merge(PickChunk(s, n), c, n)

\* Mutant: a chunk that fills its block is pushed into a bin.
ReleaseNever(s, c) == FALSE

WholeBlock(s, c) == This(s, c) >= DEFAULT_BLOCK_SIZE - BlockOverhead

MergeAndRelease(s, chunk, l) ==
    LET f == MergeFront(s, chunk, l)
        c == f.c
        m == MergeNext(f.s, c, l)
    IN CASE c = m.dv[l] -> m
         [] c # m.dv[l] /\ WholeBlock(m, c) -> FreeBlock(m, c[1])
         [] OTHER -> IF Has(m, c, "BIG") THEN PushBig(m, c) ELSE PushSmall(m, c)

Unused(s, c) ==
    [s EXCEPT !.mem[c].flags = @ \ {"USED"}, !.mem[c].color = 0, !.mem[c].bin = 0]
Returned(c) == Without(live, {c})

Uncount(s, c) ==
    LET h == s.mem[c]
        by(bin, n) == [s.counter EXCEPT ![<<h.color, Level(s, c), bin>>] = @ - n]
        once == by(h.bin, 1)
    IN IF Has(s, c, "DIRECT") /\ h.bin = BIG_MAX_BIN_ID
       THEN [once EXCEPT ![<<h.color, 1, BIG_LOG_BYTES_BIN_ID>>] = @ - h.this]
       ELSE once

(* A chunk that is not in use is freed again while its header is still     *)
(* there: the call only counts an error.                                   *)
FreeTwice(c) ==
    /\ ~InUse(z, c) /\ z.errors < MaxErrors
    /\ z' = [z EXCEPT !.errors = @ + 1]
    /\ UNCHANGED live

\* Mutant: free_memory does not look whether the chunk is in use.
FreeUnchecked(c) == TRUE

CanFree(c) == InUse(z, c)

(* free_memory of a chunk of alloc_memory *)
FreeMemory(c) ==
    LET s == [Unused(z, c) EXCEPT !.bytes = @ - This(z, c), !.counter = Uncount(z, c)]
    IN /\ ~z.panicked /\ ~Has(z, c, "SLOT")
       /\ \/ FreeTwice(c)
          \/ /\ CanFree(c)
             /\ z' = IF Has(z, c, "DIRECT") THEN FreeBlock(s, c[1])
                     ELSE MergeAndRelease(s, c, Level(s, c))
             /\ live' = Returned(c)

-----------------------------------------------------------------------------
(* Slots *)

SlotError(s) == [s |-> [s EXCEPT !.errors = @ + 1], c |-> NULL]

(* The first request of a slot fixes its size and the size of its blocks. *)
SetSlot(s, id, bytes, block) ==
    [s EXCEPT !.slot[id] =
       [user |-> AlignValue(bytes, FINE), block |-> AlignValue(block, FINE),
        max |-> CeilPowerOf2(AlignValue(block, FINE) + BlockOverhead + CHUNK_PADDING_SIZE)
                  - BlockOverhead,
        bytes |-> 0]]

SlotOut(s, c, id) ==
    [s |-> [s EXCEPT !.mem[c].flags = @ \cup {"USED"},
                     !.mem[c].bin = id,
                     !.bytes = @ + This(s, c),
                     !.slot[id].bytes = @ + This(s, c)],
     c |-> c]

(* A chunk of the slot's list, after a block was added to an empty list *)
SlotTake(s, id) ==
    LET c == Head(s.slot_bin[id])
        size == s.slot[id].user + CHUNK_PADDING_SIZE
    IN CASE This(s, c) >= 2 * size ->
              SlotOut(ExploitNewChunk(s, c, size), NewChunk(s, c, size), id)
         [] This(s, c) >= size /\ This(s, c) < 2 * size ->
              SlotOut([s EXCEPT !.slot_bin[id] = Tail(@)], c, id)
         [] OTHER -> SlotError(s)

SlotAlloc(s, id, bytes, block) ==
    LET fresh == bytes > s.slot[id].user
        t == IF fresh THEN SetSlot(s, id, bytes, block) ELSE s
        f == AllocBlock(t, t.slot[id].block, {"BIG", "DIRECT", "SLOT"})
    IN CASE bytes = 0 -> SlotError(s)
         [] bytes # 0 /\ fresh /\ s.slot[id].user # 0 -> SlotError(s)
         [] bytes # 0 /\ fresh /\ s.slot[id].user = 0
              /\ AlignValue(bytes, FINE) + CHUNK_PADDING_SIZE + BlockOverhead > block ->
              SlotError(s)
         [] OTHER ->
              IF t.slot_bin[id] # <<>> THEN SlotTake(t, id)
              ELSE IF f.c = NULL THEN SlotError(f.s)
              ELSE SlotTake([f.s EXCEPT !.slot_bin[id] = <<f.c>>], id)

AllocSlot(id, bytes, block) ==
    /\ ~z.panicked
    /\ Cardinality(DOMAIN live) < MaxLive
    /\ LET r == IF id \in SlotIds THEN SlotAlloc(Ready(z), id, bytes, block)
                ELSE SlotError(Ready(z))
       IN /\ r.s.errors <= MaxErrors
          /\ z' = r.s
          /\ live' = Lent(r, bytes, TRUE)

SlotPick(s, id, c) == [s EXCEPT !.slot_bin[id] = Unlink(@, c)]

SlotMerge(s, chunk, id) ==
    LET p == FrontOf(s, chunk)
        f == IF InUse(s, p) THEN [s |-> s, c |-> chunk]
             ELSE [s |-> Merge(SlotPick(s, id, p), p, chunk), c |-> p]
        n == NextOf(f.s, f.c)
    IN [s |-> IF InUse(f.s, n) THEN f.s ELSE Merge(SlotPick(f.s, id, n), f.c, n),
        c |-> f.c]

\* Mutant: a slot's block is released one chunk too early.
SlotWholeEarly(s, c, id) ==
    This(s, c) > s.slot[id].max - 2 * (s.slot[id].user + CHUNK_PADDING_SIZE)

SlotWhole(s, c, id) == This(s, c) > s.slot[id].max - s.slot[id].user

FreeSlot(c) ==
    LET id == z.mem[c].bin
        m == SlotMerge([Unused(z, c) EXCEPT !.bytes = @ - This(z, c),
                                            !.slot[id].bytes = @ - This(z, c)], c, id)
    IN /\ ~z.panicked /\ Has(z, c, "SLOT")
       /\ \/ FreeTwice(c)
          \/ /\ InUse(z, c)
             /\ z' = IF SlotWhole(m.s, m.c, id) THEN FreeBlock(m.s, m.c[1])
                     ELSE [m.s EXCEPT !.slot_bin[id] = <<m.c>> \o @]
             /\ live' = Returned(c)

-----------------------------------------------------------------------------
(* clear_cache and the checks of the code *)

DropDv(s, l) ==
    IF s.dv[l] = NULL THEN s
    ELSE MergeAndRelease([s EXCEPT !.dv[l] = NULL], s.dv[l], l)

ClearCache ==
    LET s == DropDv(DropDv(z, 0), 1) IN
    /\ ~z.panicked
    /\ z' = [s EXCEPT !.reserve = <<>>,
                      !.size = Without(@, ToSet(s.reserve))]
    /\ UNCHANGED live

(* Chunks of a block but its two edges *)
ChunksOf(s, b) ==
    {c \in DOMAIN s.mem : c[1] = b /\ c # BlockHead(b)
                            /\ c[2] # s.size[b] - CHUNK_FREE_SIZE}

CheckChunk(s, c) ==
    /\ {NextOf(s, c), FrontOf(s, c)} \subseteq DOMAIN s.mem      \* the fences
    /\ s.mem[NextOf(s, c)].prev = This(s, c)
    /\ s.mem[c].prev = This(s, FrontOf(s, c))
    /\ \A d \in {NextOf(s, c), FrontOf(s, c)} : Level(s, d) = Level(s, c)
    /\ This(s, c) >= SMALL_LEAST_SIZE
    /\ ~Has(s, c, "DIRECT") =>
         /\ This(s, c) <= DEFAULT_BLOCK_SIZE - BlockOverhead
         /\ This(s, c) + This(s, NextOf(s, c)) + This(s, FrontOf(s, c))
              <= DEFAULT_BLOCK_SIZE - BLOCK_TYPE_SIZE
    /\ Level(s, c) > 0 => This(s, c) >= BIG_LEAST_SIZE

CheckFreeChunk(s, c) ==
    /\ ~InUse(s, c)
    /\ s.mem[c].bin < BINMAP_SIZE
    /\ InUse(s, NextOf(s, c)) /\ InUse(s, FrontOf(s, c))

CheckFreeChunkList(s, c) ==
    LET l == Level(s, c)
        id == s.mem[c].bin
        bytes == This(s, c) - CHUNK_PADDING_SIZE
    IN c # s.dv[l] =>
         /\ id \in s.bitmap[l]
         /\ c \in ToSet(s.bin[l][id])
         /\ bytes > 0
         /\ IF l = 1 THEN bytes >= ResolveOrderSize(id) /\ bytes < ResolveOrderSize(id + 1)
            ELSE /\ bytes >= id * FINE
                 /\ bytes < (BINMAP_SIZE - 1) * FINE => bytes < (id + 1) * FINE

CheckBlockList(s, blocks, max) ==
    /\ Len(blocks) <= max
    /\ \A b \in ToSet(blocks) :
         /\ s.size[b] % FINE = 0
         /\ \/ b \in ToSet(s.used) /\ Has(s, FirstChunk(b), "DIRECT")
            \/ s.size[b] >= DEFAULT_BLOCK_SIZE

SumOf(s, set) == SumFunctionOnSet([c \in set |-> This(s, c)], set)

(* check_block looks at every chunk of a block but follows front from the  *)
(* first block of the list, which has none: it sees one block.             *)
CheckBlock(s) ==
    /\ CheckBlockList(s, s.reserve, MaxReserve)
    /\ CheckBlockList(s, s.used, MaxBlocks)
    /\ s.used # <<>> =>
         LET b == Head(s.used) IN
         /\ BlockOverhead + SumOf(s, ChunksOf(s, b)) = s.size[b]
         /\ \A c \in ChunksOf(s, b) :
              \/ /\ Has(s, c, "DIRECT")
                 /\ InUse(s, FrontOf(s, c)) /\ InUse(s, NextOf(s, c))
                 /\ This(s, FrontOf(s, c)) = This(s, NextOf(s, c))
              \/ ~Has(s, c, "DIRECT") /\ (InUse(s, c) \/ CheckFreeChunkList(s, c))

BitmapErrors(s) ==
    LET listed(x) == ToSet(s.bin[x[1]][x[2]])
        all == Levels \X Bins
    IN Cardinality({x \in all : (x[2] \in s.bitmap[x[1]]) # (listed(x) # {})})
       + Cardinality(UNION {{c \in listed(x) : s.mem[c].bin # x[2]} : x \in all})
       + Cardinality(UNION {{c \in listed(x) : InUse(s, c)} : x \in all})

CheckHealth ==
    /\ ~z.panicked /\ z.inited
    /\ z' = [z EXCEPT !.errors = @ + BitmapErrors(z)]
    /\ UNCHANGED live

(* debug_state_log: the bytes in use and the used blocks by kind *)
KindOf(s, b) ==
    LET head == BlockHead(b) IN
    IF Has(s, head, "DIRECT") THEN "direct"
    ELSE IF Has(s, head, "BIG") THEN "big" ELSE "small"
DebugStateLog(s) ==
    [bytes |-> s.bytes,
     hold |-> [k \in {"small", "big", "direct"} |->
                 Cardinality({b \in ToSet(s.used) : KindOf(s, b) = k})]]

(* bin_size_ and debug_color_log: the bytes a colour has in use at a level *)
BinSize(l, bin) ==
    CHUNK_PADDING_SIZE + (IF l = 1 THEN ResolveOrderSize(bin) ELSE bin * FINE)
DebugColorLog(s, color, l) ==
    LET bins == 0 .. BIG_MAX_BIN_ID IN
    SumFunctionOnSet([b \in bins |-> s.counter[<<color, l, b>>] * BinSize(l, b)], bins)

(* A failed check ends the process and its memory with it. *)
CheckPanic ==
    /\ ~z.panicked /\ z.inited
    /\ \/ /\ CheckBlock(z) /\ BitmapErrors(z) = 0 /\ z.errors = 0
          /\ UNCHANGED vars
       \/ /\ ~(CheckBlock(z) /\ BitmapErrors(z) = 0 /\ z.errors = 0)
          /\ z' = [InitObject EXCEPT !.panicked = TRUE, !.errors = z.errors]
          /\ live' = <<>>

Chunks(s) == UNION {ChunksOf(s, b) : b \in ToSet(s.used)}

Next ==
    \/ \E req \in Requests, color \in Colors : AllocMemory(req, color)
    \/ \E c \in Chunks(z) : FreeMemory(c) \/ FreeSlot(c)
    \/ \E id \in Slots, r \in SlotRequests : AllocSlot(id, r[1], r[2])
    \/ ClearCache
    \/ CheckHealth
    \/ CheckPanic

Spec == Init /\ [][Next]_vars

-----------------------------------------------------------------------------
(* Properties *)

FreeChunks == {c \in Chunks(z) : ~InUse(z, c)}
Listed == (UNION {ToSet(z.bin[l][b]) : l \in Levels, b \in Bins})
            \cup (UNION {ToSet(z.slot_bin[i]) : i \in SlotIds})
Dvs == {z.dv[l] : l \in Levels} \ {NULL}
Slotted == \E b \in ToSet(z.used) : Has(z, FirstChunk(b), "SLOT")

(* The fields of the object and of every header have their types, dv_ and  *)
(* the lists hold headers of used blocks, no block is in both lists.       *)
TypeOK ==
    /\ z.inited \in BOOLEAN /\ z.panicked \in BOOLEAN
    /\ z.errors \in 0 .. MaxErrors
    /\ ToSet(z.used) \cup ToSet(z.reserve) = DOMAIN z.size
    /\ IsInjective(z.used \o z.reserve)
    /\ \A c \in DOMAIN z.mem :
         /\ c[1] \in ToSet(z.used) /\ c[2] \in 1 .. z.size[c[1]]
         /\ z.mem[c].flags \subseteq Flags /\ z.mem[c].bin \in Bins \cup SlotIds
    /\ Listed \cup Dvs \subseteq Chunks(z)

(* The chunks of every block tile it without a gap or an overlap and every *)
(* header knows the size of the chunk in front, whatever was carved,       *)
(* merged and released before (exploit_new_chunk, merge_and_release).      *)
Tiled ==
    \A b \in ToSet(z.used) :
      \A c \in ChunksOf(z, b) \cup {BlockHead(b)} :
        /\ c \in DOMAIN z.mem /\ NextOf(z, c) \in DOMAIN z.mem
        /\ \A d \in ChunksOf(z, b) : ~(c[2] < d[2] /\ d[2] < NextOf(z, c)[2])
        /\ z.mem[NextOf(z, c)].prev = This(z, c)
        /\ This(z, c) >= SMALL_LEAST_SIZE

(* What a caller holds is its own and large enough: every address handed   *)
(* out is the header of a chunk in use whose payload has the bytes asked   *)
(* for, and no other chunk is in use.                                      *)
LentKept ==
    /\ DOMAIN live = {c \in Chunks(z) : InUse(z, c)}
    /\ \A c \in DOMAIN live : This(z, c) - CHUNK_PADDING_SIZE >= live[c].req

(* No free memory gets lost: two free chunks are never neighbours, and a   *)
(* free chunk is dv_ or stands exactly once in exactly the bin that        *)
(* alloc_memory will look for its size in.                                 *)
FreeFound ==
    /\ Listed \cup Dvs = FreeChunks
    /\ \A c \in FreeChunks : InUse(z, NextOf(z, c)) /\ InUse(z, FrontOf(z, c))
    /\ \A l \in Levels, b \in Bins :
         /\ (b \in z.bitmap[l]) <=> (z.bin[l][b] # <<>>)
         /\ IsInjective(z.bin[l][b])
         /\ \A c \in ToSet(z.bin[l][b]) :
              /\ c \notin Dvs /\ Level(z, c) = l
              /\ b = IF l = 1 THEN BigBin(This(z, c)) ELSE SmallBin(This(z, c))

(* The heap is well formed after any sequence of calls.                    *)
HeapSound == TypeOK /\ Tiled /\ FreeFound

(* When everything was freed the allocator holds at most the block of each *)
(* dv_, whole: no order of frees leaves a block behind.                    *)
Drained ==
    live = <<>> =>
      \A b \in ToSet(z.used) : FirstChunk(b) \in Dvs /\ ChunksOf(z, b) = {FirstChunk(b)}

(* What the logs print is true: debug_state_log the bytes of the chunks in *)
(* use and one direct block per direct request, the counters behind        *)
(* debug_color_log the chunks in use by colour, level and bin; the bytes   *)
(* it prints for small chunks never exceed their real size.                *)
Accounted ==
    LET log == DebugStateLog(z)
        of(l) == {c \in DOMAIN live : ~live[c].slot /\ Level(z, c) = l}
    IN /\ log.bytes = SumOf(z, DOMAIN live)
       /\ ~Slotted => log.hold["direct"] = Cardinality({c \in DOMAIN live : live[c].req >= BIG_MAX_REQUEST})
       /\ \A x \in Colors \X Levels \X (0 .. BIG_MAX_BIN_ID) :
            z.counter[x] = Cardinality({c \in of(x[2]) :
                             z.mem[c].color = x[1] /\ z.mem[c].bin = x[3]})
       /\ SumFunctionOnSet([k \in Colors |-> DebugColorLog(z, k, 0)], Colors) <= SumOf(z, of(0))
       /\ \A i \in SlotIds :
            z.slot[i].bytes = SumOf(z, {c \in DOMAIN live : live[c].slot /\ z.mem[c].bin = i})

(* Without slots the checks of the code itself never fire: check_panic     *)
(* stops the process only after an error was counted, an address freed     *)
(* twice or a slot refused.                                                *)
ChecksQuiet ==
    ~Slotted =>
      /\ CheckBlock(z) /\ BitmapErrors(z) = 0
      /\ \A c \in Chunks(z) : CheckChunk(z, c) /\ (~InUse(z, c) => CheckFreeChunk(z, c))

(* check_block: "bound chunk", "bound size": the chunk of a direct block   *)
(* lies between the two edges of the block.  check_panic stops the process *)
(* only after an error was counted.                                        *)
PanicExplained == z.panicked => z.errors > 0

=============================================================================
