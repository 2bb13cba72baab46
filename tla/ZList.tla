------------------------------- MODULE ZList -------------------------------
(***************************************************************************)
(* zlist (zlist.h) and zlist_ext (zlist_ext.h): a doubly linked list in a  *)
(* pool of _Size nodes and an end node, with a list of freed nodes and the *)
(* offset of the first node never used.  zlist_ext keeps the elements of   *)
(* the first _FixedSize nodes in the object and the others in one buffer   *)
(* allocated when the first of them is used; with _FixedSize = _Size it is *)
(* zlist.  An iterator is the id of its node.                              *)
(***************************************************************************)
EXTENDS Integers, Sequences, FiniteSets, SequencesExt

CONSTANTS ListSize, ListFixed,  \* _Size, _FixedSize
          Lists,                \* the objects
          Values,               \* values of _Ty
          NoValue

ASSUME ListAssumption ==
    /\ ListFixed \in Nat \ {0} /\ ListSize \in Nat /\ ListFixed <= ListSize
    /\ IsFiniteSet(Lists) /\ Values \subseteq Int

VARIABLES list,     \* per object: the pool and its indices
          trivial,  \* std::is_trivial<_Ty>
          lost,     \* a buffer was dropped without deallocate
          lseq      \* history: the sequence each object should hold

lvars == <<list, trivial, lost, lseq>>

END_ID == ListSize
Nodes == 0 .. ListSize - 1
Fixed == -1                     \* space of a node in the object itself
Dync == 1 .. Cardinality(Lists) + 1     \* buffers; 0 is none

(* init(): links that are never read are END_ID *)
InitList ==
    [used_count |-> 0, free_id |-> END_ID, exploit |-> 0, head |-> END_ID,
     next |-> [i \in 0 .. END_ID |-> END_ID],
     front |-> [i \in 0 .. END_ID |-> END_ID],
     val |-> [i \in Nodes |-> NoValue],
     space |-> [i \in Nodes |-> 0],     \* Fixed, or the buffer
     dync |-> 0]                        \* dync_space_

ListInit ==
    /\ list = [o \in Lists |-> InitList]
    /\ trivial \in BOOLEAN /\ lost = FALSE
    /\ lseq = [o \in Lists |-> <<>>]

NewBuffer == CHOOSE b \in Dync : \A o \in Lists : list[o].dync # b

-----------------------------------------------------------------------------
(* The pool *)

PushFreeNode(l, id) ==
    [l EXCEPT !.next[id] = l.free_id, !.front[id] = END_ID,
              !.val[id] = NoValue, !.free_id = id]

ListFull(l) == l.free_id = END_ID /\ l.exploit >= END_ID
FreeNode(l) == IF l.free_id # END_ID THEN l.free_id ELSE l.exploit

(* pop_free_node of a list that is not full; the id is FreeNode(l) *)
PopFreeNode(l) ==
    IF l.free_id # END_ID THEN [l EXCEPT !.free_id = l.next[l.free_id]]
    ELSE LET buf == IF l.dync # 0 THEN l.dync ELSE NewBuffer
             own == l.exploit < ListFixed
         IN [l EXCEPT !.exploit = @ + 1,
                      !.dync = IF own THEN @ ELSE buf,
                      !.space[l.exploit] = IF own THEN Fixed ELSE buf]

\* Mutant: the node behind the picked one keeps its front.
PickKeepFront(l, id) ==
    [l EXCEPT !.used_count = @ - 1,
              !.head = IF @ = id THEN l.next[id] ELSE @,
              !.next = IF l.head = id THEN @ ELSE [@ EXCEPT ![l.front[id]] = l.next[id]]]

(* pick_used_node *)
PickUsedNode(l, id) ==
    IF l.head = id
    THEN [l EXCEPT !.used_count = @ - 1, !.head = l.next[id],
                   !.front[l.next[id]] = END_ID]
    ELSE [l EXCEPT !.used_count = @ - 1,
                   !.next[l.front[id]] = l.next[id],
                   !.front[l.next[id]] = l.front[id]]

(* pick_and_release_used_node: nothing happens to the end node *)
Release(l, id) ==
    IF id >= END_ID \/ l.head >= END_ID THEN l
    ELSE PushFreeNode(PickUsedNode(l, id), id)

InjectNode(l, pos, id) ==
    LET before == l.front[pos] IN
    [l EXCEPT !.next = IF pos = l.head THEN [@ EXCEPT ![id] = pos]
                       ELSE [@ EXCEPT ![id] = pos, ![before] = id],
              !.front = [@ EXCEPT ![id] = before, ![pos] = id],
              !.head = IF pos = @ THEN id ELSE @,
              !.used_count = @ + 1]

(* inject: the list and the id of the new node, END_ID of a full list *)
InjectAt(r, v) ==
    LET l == r.l
        id == FreeNode(l)
    IN IF ListFull(l) THEN [l |-> l, pos |-> END_ID]
       ELSE [l |-> [InjectNode(PopFreeNode(l), r.pos, id) EXCEPT !.val[id] = v], pos |-> id]

-----------------------------------------------------------------------------
(* Operations on one list *)

(* The elements of vs, each in front of the one before *)
InjectAll(l, pos, vs) ==
    LET at[k \in 0 .. Len(vs)] == IF k = 0 THEN [l |-> l, pos |-> pos]
                                  ELSE InjectAt(at[k - 1], vs[k])
    IN at[Len(vs)].l

(* insert(pos, first, last): from the last element to the first; a list    *)
(* that gets full has the last ones.                                       *)
InsertRange(l, pos, vs) == InjectAll(l, pos, Reverse(vs))

(* insert(pos, count, value) *)
InsertCount(l, pos, n, v) ==
    IF l.used_count + n > END_ID \/ n = 0 THEN l
    ELSE InjectAll(l, pos, [i \in 1 .. n |-> v])

(* clear(): init, but the buffer stays *)
ClearList(l) == [InitList EXCEPT !.dync = l.dync]

AssignList(l, vs) == InsertRange(ClearList(l), END_ID, vs)
FillList(l, v) == InsertCount(ClearList(l), END_ID, END_ID, v)

(* The ids from id to END_ID along a link; one more than the pool has when *)
(* END_ID is not reached.                                                  *)
Walk(link, id) ==
    LET at[k \in 0 .. ListSize + 1] ==
          IF k = 0 THEN id ELSE IF at[k - 1] = END_ID THEN END_ID ELSE link[at[k - 1]]
        len == Cardinality({k \in 0 .. ListSize : at[k] # END_ID})
    IN [k \in 1 .. len |-> at[k - 1]]

Elements(l) == [k \in DOMAIN Walk(l.next, l.head) |-> l.val[Walk(l.next, l.head)[k]]]

(* erase(first, last) *)
EraseRange(l, ids) ==
    LET at[k \in 0 .. Len(ids)] == IF k = 0 THEN l ELSE Release(at[k - 1], ids[k])
    IN at[Len(ids)]

(* comp_bound: the first node that comp does not hold for *)
LowerBound(l, v) ==
    LET ids == Walk(l.next, l.head)
        stop == {k \in DOMAIN ids : ~(l.val[ids[k]] < v)}
    IN IF stop = {} THEN END_ID ELSE ids[CHOOSE k \in stop : \A j \in stop : k <= j]

(* plat_init(const &): nodes and elements are copied as bytes *)
PlatCopy(other) ==
    LET more == other.dync # 0 /\ other.exploit > ListFixed
        buf == IF more THEN NewBuffer ELSE 0
    IN [other EXCEPT !.dync = buf,
          !.space = [i \in Nodes |-> IF i >= ListFixed /\ more /\ i < other.exploit
                                     THEN buf ELSE @[i]]]

MovedList(other) == InitList

(* plat_init(&&): the buffer goes with the nodes that point into it *)
PlatMove(other) == other

Flat(other) == trivial /\ other.used_count * 4 >= other.exploit

-----------------------------------------------------------------------------
(* The steps *)

Change(o, l, s) ==
    /\ list' = [list EXCEPT ![o] = l]
    /\ lseq' = [lseq EXCEPT ![o] = s]
    /\ UNCHANGED <<trivial, lost>>

Ids(o) == Walk(list[o].next, list[o].head)
Spliced(s, k, n, new) == SubSeq(s, 1, k - 1) \o new \o SubSeq(s, k + n, Len(s))
Space(o) == ListSize - Len(lseq[o])
LastOnes(s, n) == SubSeq(s, Len(s) - n + 1, Len(s))
Least(a, b) == IF a < b THEN a ELSE b

(* insert(pos, value) and emplace in front of the k-th element; push_front *)
(* and push_back are the two ends.                                         *)
ListInsert(o, k, v) ==
    LET pos == IF k > Len(Ids(o)) THEN END_ID ELSE Ids(o)[k] IN
    Change(o, InjectAt([l |-> list[o], pos |-> pos], v).l,
           IF Space(o) = 0 THEN lseq[o] ELSE Spliced(lseq[o], k, 0, <<v>>))

ListInsertCount(o, k, n, v) ==
    LET pos == IF k > Len(Ids(o)) THEN END_ID ELSE Ids(o)[k] IN
    Change(o, InsertCount(list[o], pos, n, v),
           IF Space(o) < n THEN lseq[o] ELSE Spliced(lseq[o], k, 0, [i \in 1 .. n |-> v]))

ListInsertRange(o, k, vs) ==
    LET pos == IF k > Len(Ids(o)) THEN END_ID ELSE Ids(o)[k] IN
    Change(o, InsertRange(list[o], pos, vs),
           Spliced(lseq[o], k, 0, LastOnes(vs, Least(Len(vs), Space(o)))))

ListErase(o, k, n) ==
    Change(o, EraseRange(list[o], SubSeq(Ids(o), k, k + n - 1)), Spliced(lseq[o], k, n, <<>>))

ListPopFront(o) ==
    Change(o, Release(list[o], list[o].head), IF lseq[o] = <<>> THEN <<>> ELSE Tail(lseq[o]))
ListPopBack(o) ==
    Change(o, Release(list[o], list[o].front[END_ID]),
           SubSeq(lseq[o], 1, Len(lseq[o]) - 1))

ListAssign(o, vs) ==
    Change(o, AssignList(list[o], vs), LastOnes(vs, Least(Len(vs), ListSize)))
ListFill(o, v) == Change(o, FillList(list[o], v), [i \in 1 .. ListSize |-> v])
ListClear(o) == Change(o, ClearList(list[o]), <<>>)

(* operator=(const &) *)
ListCopy(o, p) ==
    /\ o # p
    /\ list' = [list EXCEPT ![o] = IF Flat(list[p]) THEN PlatCopy(list[p])
                                   ELSE AssignList(list[o], Elements(list[p]))]
    /\ lost' = (lost \/ (Flat(list[p]) /\ list[o].dync # 0))
    /\ lseq' = [lseq EXCEPT ![o] = lseq[p]]
    /\ UNCHANGED trivial

(* operator=(&&): a list that cannot be taken over is copied *)
ListMove(o, p) ==
    /\ o # p
    /\ list' = IF Flat(list[p])
               THEN [list EXCEPT ![o] = PlatMove(list[p]), ![p] = MovedList(list[p])]
               ELSE [list EXCEPT ![o] = AssignList(list[o], Elements(list[p]))]
    /\ lost' = (lost \/ (Flat(list[p]) /\ list[o].dync # 0))
    /\ lseq' = [lseq EXCEPT ![o] = lseq[p], ![p] = IF Flat(list[p]) THEN <<>> ELSE @]
    /\ UNCHANGED trivial

(* ~zlist_ext() and a new object; the copying constructor is init and      *)
(* assign for every type it can be compiled for.                           *)
ListRebuild(o, p) ==
    /\ o # p
    /\ \/ Change(o, InitList, <<>>)
       \/ ~Flat(list[p]) /\ Change(o, AssignList(InitList, Elements(list[p])), lseq[p])

ListNext ==
    \E o \in Lists :
      \/ \E k \in 1 .. Len(lseq[o]) + 1, v \in Values :
           \/ ListInsert(o, k, v)
           \/ \E n \in {0, 2} : ListInsertCount(o, k, n, v)
           \/ \E w \in Values : ListInsertRange(o, k, <<v, w>>)
      \/ \E k \in 1 .. Len(lseq[o]) : \E n \in 1 .. Len(lseq[o]) - k + 1 : ListErase(o, k, n)
      \/ ListPopFront(o) \/ ListPopBack(o) \/ ListClear(o)
      \/ \E v \in Values : ListFill(o, v)
      \/ \E v, w \in Values : ListAssign(o, <<v, w, v, w>>)
      \/ \E p \in Lists : ListCopy(o, p) \/ ListMove(o, p) \/ ListRebuild(o, p)

ListSpec == ListInit /\ [][ListNext]_lvars

-----------------------------------------------------------------------------
(* Properties *)

(* A list holds exactly the sequence its operations promise, read forward  *)
(* along next and backward along front, and used_count_ is its length.     *)
ListContents ==
    \A o \in Lists :
      LET l == list[o]
          back == Walk(l.front, l.front[END_ID])
      IN /\ Elements(l) = lseq[o]
         /\ Reverse([k \in DOMAIN back |-> l.val[back[k]]]) = lseq[o]
         /\ l.used_count = Len(lseq[o])

(* The pool is whole: every node below the offset is in the list or in the *)
(* free list, once; full() is true exactly when no node is left.           *)
ListPool ==
    \A o \in Lists :
      LET l == list[o]
          all == Ids(o) \o Walk(l.next, l.free_id)
      IN /\ Len(all) = l.exploit /\ ToSet(all) = 0 .. l.exploit - 1
         /\ ListFull(l) <=> Len(lseq[o]) = ListSize

(* The element of a node lies in its own list: in the object, or in the    *)
(* buffer this list alone owns.                                            *)
ListSpaces ==
    \A o \in Lists :
      /\ \A i \in 0 .. list[o].exploit - 1 :
           list[o].space[i] = IF i < ListFixed THEN Fixed ELSE list[o].dync
      /\ list[o].exploit > ListFixed => list[o].dync # 0
      /\ \A p \in Lists : o # p /\ list[o].dync # 0 => list[p].dync # list[o].dync

(* A buffer is lost only when a list of a trivial type that has one is     *)
(* assigned over (operator= overwrites dync_space_).                       *)
ListLeaks == lost => trivial

(* lower_bound of a sorted list is where insert keeps it sorted.           *)
ListSorted ==
    \A o \in Lists : \A v \in Values :
      LET b == LowerBound(list[o], v)
          k == IF b = END_ID THEN Len(lseq[o]) + 1 ELSE CHOOSE j \in DOMAIN Ids(o) : Ids(o)[j] = b
          sorted(s) == \A i, j \in DOMAIN s : i < j => s[i] <= s[j]
      IN sorted(lseq[o]) => sorted(Spliced(lseq[o], k, 0, <<v>>))

(* A list after any sequence of calls: what it holds, its nodes, the space *)
(* they lie in and its order.                                              *)
ListSound == ListContents /\ ListPool /\ ListSpaces /\ ListLeaks /\ ListSorted

=============================================================================
