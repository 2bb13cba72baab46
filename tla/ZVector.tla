------------------------------ MODULE ZVector ------------------------------
(***************************************************************************)
(* zvector (zvector.h): a vector of at most _Size elements that live in    *)
(* the object itself until more than _FixedSize are needed, then in one    *)
(* heap buffer of _Size.  zarray (zarray.h) is the same code without the   *)
(* heap: _FixedSize = _Size.  The element type has a constructor and a     *)
(* destructor; a place that holds no object is Raw.                        *)
(*                                                                         *)
(* Positions are indices: the code's iterators are pointers and are turned *)
(* into an index by check_realloc before they are used again.              *)
(***************************************************************************)
EXTENDS Integers, Sequences, FiniteSets, SequencesExt

CONSTANTS VecSize, VecFixed,    \* _Size, _FixedSize
          Vectors,              \* the objects
          Elems,                \* values of _Ty
          Raw                   \* no object

ASSUME VecAssumption ==
    /\ VecFixed \in Nat /\ VecSize \in Nat /\ VecFixed <= VecSize
    /\ IsFiniteSet(Vectors) /\ Raw \notin Elems

VARIABLES vec,      \* per object: space, count_, the heap buffer (0 for data_)
          heap,     \* the buffers allocated
          vbad,     \* a constructor ran on an object, a destructor on none,
                    \* or a place outside the buffer was written
          odd,      \* insert(pos, n, v) was called with fewer than n behind pos
          vseq      \* history: the sequence each object should hold

vvars == <<vec, heap, vbad, odd, vseq>>

Places == 0 .. VecSize - 1
Buffers == 1 .. Cardinality(Vectors) + 1
Empty == [space |-> [i \in Places |-> Raw], count |-> 0, buf |-> 0]

VecInit ==
    /\ vec = [o \in Vectors |-> Empty]
    /\ heap = {} /\ vbad = FALSE /\ odd = FALSE
    /\ vseq = [o \in Vectors |-> <<>>]

Capacity(v) == IF v.buf = 0 THEN VecFixed ELSE VecSize
IsFull(v) == v.count = VecSize
Objects(v) == {i \in Places : v.space[i] # Raw}

(* What is wrong with a step that constructs at the places c, assigns to   *)
(* the objects at a and destroys the ones at d, in this order.             *)
Harm(v, c, a, d) ==
    \/ c \cap Objects(v) # {}
    \/ ~(a \subseteq Objects(v) \cup c)
    \/ ~(d \subseteq Objects(v) \cup c)
    \/ \E i \in c \cup a : i >= Capacity(v)

-----------------------------------------------------------------------------
(* Operations on one object: the new object and whether it was harmful *)

(* check_realloc: the elements move to a new buffer *)
CheckRealloc(v, expect) ==
    IF v.buf # 0 \/ expect <= VecFixed THEN v
    ELSE [v EXCEPT !.buf = CHOOSE b \in Buffers : b \notin heap]

ClearVec(v) == [v EXCEPT !.space = [i \in Places |-> Raw], !.count = 0]

(* inject: room for n elements at pos.  The elements behind pos move by n: *)
(* into raw places by construction, into others by assignment; the n       *)
(* places are then destroyed.                                              *)
Inject(v, pos, n) ==
    LET w == CheckRealloc(v, v.count + n)
        tail == w.count - pos
        built == (IF tail < n THEN pos + n ELSE w.count) .. w.count + n - 1
        moved == pos + n .. w.count - 1
    IN [v |-> [w EXCEPT !.count = @ + n,
                 !.space = [i \in Places |->
                    CASE i < pos -> @[i]
                      [] i >= pos /\ i < pos + n -> Raw
                      [] i >= pos + n /\ i < w.count + n -> @[i - n]
                      [] OTHER -> Raw]],
        bad |-> tail > 0 /\ Harm(w, built, moved, pos .. pos + n - 1)]

CanInsert(v, pos, n) == pos <= v.count /\ v.count + n <= VecSize /\ n # 0

(* insert(pos, n, value); insert(pos, value), emplace and push_back are    *)
(* insert of one.                                                          *)
InsertVec(v, pos, n, e) ==
    LET j == Inject(v, pos, n) IN
    [v |-> [j.v EXCEPT !.space = [i \in Places |->
               IF i >= pos /\ i < pos + n THEN e ELSE @[i]]],
     bad |-> j.bad \/ Harm(j.v, pos .. pos + n - 1, {}, {})]

(* erase(first, last): the rest is assigned to the front, the places left  *)
(* over are destroyed.                                                     *)
EraseVec(v, first, last) ==
    LET n == last - first
        end == v.count - n
    IN [v |-> [v EXCEPT !.count = end,
                  !.space = [i \in Places |->
                     CASE i < first -> @[i]
                       [] i >= first /\ i < end -> @[i + n]
                       [] OTHER -> Raw]],
        bad |-> Harm(v, {}, first .. end - 1, end .. v.count - 1)]

(* fill(value): objects are assigned, raw places constructed *)
FillVec(v, e) ==
    LET w == CheckRealloc(v, VecSize) IN
    [v |-> [w EXCEPT !.space = [i \in Places |-> e], !.count = VecSize],
     bad |-> Harm(w, w.count .. VecSize - 1, 0 .. w.count - 1, {})]

(* assign(first, last): what does not fit is left out *)
AssignVec(v, es) ==
    LET w == CheckRealloc(ClearVec(v), Len(es))
        n == IF Len(es) < VecSize THEN Len(es) ELSE VecSize
    IN [v |-> [w EXCEPT !.count = n,
                  !.space = [i \in Places |-> IF i < n THEN es[i + 1] ELSE Raw]],
        bad |-> Harm(w, 0 .. n - 1, {}, {})]

(* operator=(const zvector&) *)
CopyVec(v, other) ==
    LET w == CheckRealloc(v, other.count)
        both == IF w.count < other.count THEN w.count ELSE other.count
    IN [v |-> [w EXCEPT !.count = other.count, !.space = other.space],
        bad |-> Harm(w, both .. other.count - 1, 0 .. both - 1,
                     other.count .. w.count - 1)]

(* ~zvector() followed by zvector(const zvector&) *)
RebuildVec(v, other) == CopyVec(Empty, other)

(* operator=(zvector&&): the buffer of other, or a copy of its elements *)
MoveVec(v, other) ==
    IF other.buf # 0 THEN [v |-> other, bad |-> FALSE]
    ELSE [v |-> [Empty EXCEPT !.space = other.space, !.count = other.count],
          bad |-> Harm(Empty, 0 .. other.count - 1, {}, {})]

\* Mutant: the vector moved from keeps its pointer to the buffer.
MovedKeeps(other) == other
MovedFrom(other) == IF other.buf # 0 THEN Empty ELSE other

-----------------------------------------------------------------------------
(* The steps *)

VecStep(o, r) ==
    /\ vec' = [vec EXCEPT ![o] = r.v]
    /\ vbad' = (vbad \/ r.bad)
    /\ heap' = (heap \ {vec[o].buf}) \cup ({r.v.buf} \ {0})

Fresh == ~vbad /\ ~odd      \* the objects are still what the type promises
Becomes(o, s) == vseq' = [vseq EXCEPT ![o] = s]
Replaced(s, pos, n, new) == SubSeq(s, 1, pos) \o new \o SubSeq(s, pos + n + 1, Len(s))

VecInsert(o, pos, n, e) ==
    LET tail == vec[o].count - pos IN
    /\ Fresh /\ pos <= vec[o].count
    /\ \/ /\ CanInsert(vec[o], pos, n)
          /\ VecStep(o, InsertVec(vec[o], pos, n, e))
          /\ odd' = (tail > 0 /\ n > tail)
          /\ Becomes(o, IF Len(vseq[o]) + n > VecSize THEN vseq[o]
                        ELSE Replaced(vseq[o], pos, 0, [i \in 1 .. n |-> e]))
       \/ /\ ~CanInsert(vec[o], pos, n)
          /\ UNCHANGED vvars

VecErase(o, first, last) ==
    /\ Fresh /\ first < last /\ last <= vec[o].count
    /\ VecStep(o, EraseVec(vec[o], first, last))
    /\ Becomes(o, Replaced(vseq[o], first, last - first, <<>>))
    /\ UNCHANGED odd

VecPopBack(o) ==
    /\ Fresh /\ vec[o].count > 0        \* pop_back does not look
    /\ VecStep(o, EraseVec(vec[o], vec[o].count - 1, vec[o].count))
    /\ Becomes(o, SubSeq(vseq[o], 1, Len(vseq[o]) - 1))
    /\ UNCHANGED odd

VecFill(o, e) ==
    /\ Fresh
    /\ VecStep(o, FillVec(vec[o], e))
    /\ Becomes(o, [i \in 1 .. VecSize |-> e])
    /\ UNCHANGED odd

VecClear(o) ==
    /\ Fresh
    /\ VecStep(o, [v |-> ClearVec(vec[o]), bad |-> FALSE])
    /\ Becomes(o, <<>>)
    /\ UNCHANGED odd

VecAssign(o, es) ==
    /\ Fresh
    /\ VecStep(o, AssignVec(vec[o], es))
    /\ Becomes(o, SubSeq(es, 1, IF Len(es) < VecSize THEN Len(es) ELSE VecSize))
    /\ UNCHANGED odd

VecCopy(o, p) ==
    /\ Fresh /\ o # p
    /\ \/ VecStep(o, CopyVec(vec[o], vec[p]))
       \/ VecStep(o, RebuildVec(vec[o], vec[p]))
    /\ Becomes(o, vseq[p])
    /\ UNCHANGED odd

(* The vector moved from is left empty when it gave its buffer away and    *)
(* keeps its elements when they were copied.                               *)
VecMove(o, p) ==
    LET r == MoveVec(vec[o], vec[p])
        given == vec[p].buf # 0
    IN /\ Fresh /\ o # p
       /\ vec' = [vec EXCEPT ![o] = r.v, ![p] = MovedFrom(vec[p])]
       /\ vbad' = (vbad \/ r.bad)
       /\ heap' = heap \ {vec[o].buf}
       /\ vseq' = [vseq EXCEPT ![o] = vseq[p], ![p] = IF given THEN <<>> ELSE @]
       /\ UNCHANGED odd

VecNext ==
    \E o \in Vectors :
      \/ \E pos \in 0 .. VecSize, n \in 0 .. 2, e \in Elems : VecInsert(o, pos, n, e)
      \/ \E first \in Places, last \in 1 .. VecSize : VecErase(o, first, last)
      \/ VecPopBack(o)
      \/ VecClear(o)
      \/ \E e \in Elems : VecFill(o, e)
      \/ \E e \in Elems, n \in {1, VecSize + 1} : VecAssign(o, [i \in 1 .. n |-> e])
      \/ \E p \in Vectors : VecCopy(o, p) \/ VecMove(o, p)

VecSpec == VecInit /\ [][VecNext]_vvars

-----------------------------------------------------------------------------
(* Properties *)

(* Whatever was inserted, erased, copied and moved, a vector holds exactly *)
(* the sequence its operations promise, across the move to the heap.       *)
VecContents ==
    ~odd => \A o \in Vectors :
      /\ vec[o].count = Len(vseq[o])
      /\ \A i \in 1 .. Len(vseq[o]) : vec[o].space[i - 1] = vseq[o][i]

(* Objects and lifetimes: the places below count_ hold an object and no    *)
(* other place does, no object is constructed twice, no place outside the  *)
(* buffer is written and no destructor runs without an object; the one     *)
(* exception is insert(pos, n, v) with fewer than n elements behind pos.   *)
VecLifetimes ==
    /\ vbad => odd
    /\ ~odd => \A o \in Vectors : Objects(vec[o]) = 0 .. vec[o].count - 1

(* Every heap buffer belongs to exactly one vector: none is freed twice,   *)
(* none is lost when a vector is assigned over.                            *)
VecBuffers ==
    /\ heap = {vec[o].buf : o \in Vectors} \ {0}
    /\ \A o, p \in Vectors : o # p /\ vec[o].buf # 0 => vec[o].buf # vec[p].buf

(* The three for every sequence of calls: contents, lifetimes, ownership.  *)
VecSound == VecContents /\ VecLifetimes /\ VecBuffers

=============================================================================
