------------------------------ MODULE ShowTree ------------------------------
(***************************************************************************)
(* The display hierarchy of a Record: which entries are registered, below  *)
(* which entry each one is shown (show_[i].upper), the window of ids in    *)
(* which an entry's childs lie (child, window), the jump table that lets a *)
(* report skip nested entries (jumps), and the two walks that rely on it:  *)
(* RecursiveOutput for the reports and ResetChilds for the resets.         *)
(*                                                                         *)
(* Of an entry's data only the kinds it holds matter here (has); of its    *)
(* name and clock, only whether RecursiveOutput prints it.  The data of    *)
(* the profiler's own cost entries is left out.  Calls are sequential, and *)
(* clients register ids from begin_id() on (entry 0 is Init's).            *)
(***************************************************************************)
EXTENDS Ids, FiniteSets, SequencesExt

CONSTANTS
    kProfMaxDepth,   \* deepest level whose childs are still walked
    Names,           \* name classes clients use: "ok", "long", "out"
    Clocks,          \* clk < kClockMAX at Regist: values clients pass
    Residents,       \* resident at Regist: values clients pass
    Fields,          \* kinds of data clients record
    ReReg,           \* linked entries clients re-register: "parent", "child"
    MaxBinds,        \* bound: BindChilds calls
    MaxErrors        \* bound: ResetChilds calls stop when error_count_ is here

AllFields == {"cpu", "mem", "vm", "timer", "user"}

ASSUME ShowAssumption ==
    /\ kProfMaxDepth \in Nat
    /\ Names \subseteq {"ok", "long", "out"} /\ "ok" \in Names
    /\ Clocks \subseteq BOOLEAN /\ Residents \subseteq BOOLEAN
    /\ Fields \subseteq AllFields
    /\ ReReg \subseteq {"parent", "child"}
    /\ MaxBinds \in Nat /\ MaxErrors \in Nat

VARIABLES
    active,          \* active_[i]
    trait,           \* traits_[i]: name class, clk valid, resident
    upper,           \* show_[i].upper
    child,           \* show_[i].child
    window,          \* show_[i].window
    jumps,           \* show_[i].jumps
    declare_window,  \* declare_window_
    has,             \* kinds of data entry i holds (cpu_, mem_, vm_, timer_, user_)
    output,          \* output_ is set
    error_count,     \* error_count_
    out,             \* the last call, if it was an output call
    binds            \* bound counter: BindChilds calls so far

show == <<upper, child, window, jumps>>
vars == <<active, trait, show, declare_window, has, output, error_count, out, binds>>

\* A name that fits; one of more than kProfDescMaxSize characters; one that
\* does not end inside compact_data_.
Trait == [name : {"ok", "long", "out"}, clk : BOOLEAN, resident : BOOLEAN]

\* What memset leaves of a trait: name 0 ("unknown"), clk 0, not resident.
NoTrait == [name |-> "ok", clk |-> TRUE, resident |-> FALSE]

\* lines: the entries that were printed, <<id, depth>>; top (history): the
\* entries the call was asked to print with all that is shown below them.
NoOut == [top |-> {}, lines |-> <<>>]

----------------------------------------------------------------------------
(* Registration                                                            *)

\* The constructor.
Init ==
    /\ active = [i \in Id0 |-> FALSE]
    /\ trait = [i \in Id0 |-> NoTrait]
    /\ upper = [i \in Id0 |-> 0]
    /\ child = [i \in Id0 |-> 0]
    /\ window = [i \in Id0 |-> 0]
    /\ jumps = [i \in Id0 |-> 0]
    /\ declare_window = declare_begin_id
    /\ has = [i \in Id0 |-> {}]
    /\ output = TRUE
    /\ error_count = 0
    /\ out = NoOut
    /\ binds = 0

\* The entries S go back to a memset show_ and lose their data.
Blank(S) ==
    /\ upper' = [i \in Id0 |-> IF i \in S THEN 0 ELSE upper[i]]
    /\ child' = [i \in Id0 |-> IF i \in S THEN 0 ELSE child[i]]
    /\ window' = [i \in Id0 |-> IF i \in S THEN 0 ELSE window[i]]
    /\ jumps' = [i \in Id0 |-> IF i \in S THEN 0 ELSE jumps[i]]
    /\ has' = [i \in Id0 |-> IF i \in S THEN {} ELSE has[i]]

\* Init(title): registers what is not active below reserve_end_id, and all
\* inner entries (kInnerNull too) anew.
InitRecord ==
    LET inner == 0 .. kInnerMax - 1
        S == inner \cup {i \in reserve_begin_id .. reserve_end_id - 1 : ~active[i]}
    IN  /\ Blank(S)
        /\ active' = [i \in Id0 |-> active[i] \/ i \in S]
        /\ trait' = [i \in Id0 |->
                       IF i \in S THEN [NoTrait EXCEPT !.resident = i \in inner]
                       ELSE trait[i]]
        /\ out' = NoOut
        /\ UNCHANGED <<declare_window, output, error_count, binds>>

\* Mutant: the window stops before the entry that was registered.
WindowShort(i) == IF i > declare_window THEN i ELSE declare_window

\* declare_window_ after entry i was registered.
WindowAfter(i) ==
    IF i \in declare_begin_id .. declare_end_id - 1 /\ i + 1 > declare_window
    THEN i + 1 ELSE declare_window

Regist(i, tr, re_reg) ==
    /\ re_reg \/ ~active[i]
    /\ Blank({i})
    /\ active' = [active EXCEPT ![i] = TRUE]
    /\ trait' = [trait EXCEPT ![i] = tr]
    /\ declare_window' = WindowAfter(i)
    /\ out' = NoOut
    /\ UNCHANGED <<output, error_count, binds>>

Rename(i, name) ==
    /\ trait' = [trait EXCEPT ![i].name = name]
    /\ out' = NoOut
    /\ UNCHANGED <<active, show, declare_window, has, output, error_count, binds>>

----------------------------------------------------------------------------
(* Binding and the jump table                                              *)

\* Mutants: the window does not grow downwards; it ends at an absolute id.
WindowOfUpOnly(p, c) ==
    IF child[p] = 0 THEN <<c, 1>>
    ELSE IF c < child[p] THEN <<c, window[p]>>
    ELSE IF c >= child[p] + window[p] THEN <<child[p], c - child[p] + 1>>
    ELSE <<child[p], window[p]>>

WindowOfAbsolute(p, c) ==
    IF child[p] = 0 THEN <<c, 1>>
    ELSE IF c < child[p] THEN <<c, window[p] + child[p] - c>>
    ELSE IF c >= child[p] + window[p] THEN <<child[p], c + 1>>
    ELSE <<child[p], window[p]>>

\* child and window of p once c lies in the window.
WindowOf(p, c) ==
    IF child[p] = 0 THEN <<c, 1>>
    ELSE IF c < child[p] THEN <<c, window[p] + child[p] - c>>
    ELSE IF c >= child[p] + window[p] THEN <<child[p], c - child[p] + 1>>
    ELSE <<child[p], window[p]>>

BindChilds(p, c) ==
    /\ binds < MaxBinds /\ binds' = binds + 1
    /\ p # c
    /\ active[p] /\ active[c]
    /\ child' = [child EXCEPT ![p] = WindowOf(p, c)[1]]
    /\ window' = [window EXCEPT ![p] = WindowOf(p, c)[2]]
    /\ upper' = [upper EXCEPT ![c] = p]
    /\ out' = NoOut
    /\ UNCHANGED <<active, trait, jumps, declare_window, has, output, error_count>>

Declared == declare_begin_id .. declare_end_id - 1

\* Mutant: the search for the next top entry ends one too late.
NextTopLate(i) ==
    CHOOSE n \in i + 1 .. declare_end_id :
        /\ n = declare_end_id \/ (n - 1 > i /\ upper[n - 1] = 0)
        /\ \A j \in i + 1 .. n - 2 : upper[j] # 0

\* The first top-level entry after i, or the end of the declared ids.
NextTop(i) ==
    CHOOSE n \in i + 1 .. declare_end_id :
        /\ n = declare_end_id \/ upper[n] = 0
        /\ \A j \in i + 1 .. n - 1 : upper[j] # 0

\* Every entry of a run points at the top-level entry that ends the run.
BuildJumpPath ==
    /\ jumps' = [i \in Id0 |-> IF i \in Declared THEN NextTop(i) - i - 1 ELSE jumps[i]]
    /\ out' = NoOut
    /\ UNCHANGED <<active, trait, upper, child, window, declare_window, has, output,
                   error_count, binds>>

\* Mutant: the loops over a window stop one short.
ShownShort(p) == {i \in child[p] .. child[p] + window[p] - 2 : upper[i] = p}

\* The entries shown below p that the loops over its window find.
Shown(p) == {i \in child[p] .. child[p] + window[p] - 1 : upper[i] = p}

\* The order in which the loops meet them.
Childs(p) ==
    [k \in 1 .. Cardinality(Shown(p)) |->
        CHOOSE i \in Shown(p) : Cardinality({j \in Shown(p) : j < i}) = k - 1]

----------------------------------------------------------------------------
(* Data                                                                    *)

\* Record*(i, ...); a timer's first stamp only arms it, the later ones record
\* cpu as well.
Record(i, f) ==
    /\ has' = [has EXCEPT ![i] = @ \cup {f} \cup
                 (IF f = "timer" /\ "timer" \in @ THEN {"cpu"} ELSE {})]
    /\ out' = NoOut
    /\ UNCHANGED <<active, trait, show, declare_window, output, error_count, binds>>

\* ResetReserveNode, ResetDeclareNode (ResetRangeNode over [first, last)).
ResetRangeNode(first, last, keep_resident) ==
    /\ has' = [i \in Id0 |->
                 IF i \in first .. last - 1 /\ ~(keep_resident /\ trait[i].resident)
                 THEN {} ELSE has[i]]
    /\ out' = NoOut
    /\ UNCHANGED <<active, trait, show, declare_window, output, error_count, binds>>

\* The entries ResetChilds(p) visits at depth d.
Visited(p) ==
    LET level[d \in 0 .. kProfMaxDepth + 1] ==
            IF d = 0 THEN {p}
            ELSE UNION {Shown(i) : i \in level[d - 1]}
    IN  level

\* ResetCpu, ResetMem, ResetTimer and ResetUser; vm_ is not reset.
ChildsReset == {"cpu", "mem", "timer", "user"}

ResetChilds(p) ==
    LET level == Visited(p)
        visits == UNION {level[d] : d \in 0 .. kProfMaxDepth + 1}
    IN  /\ error_count < MaxErrors
        /\ out' = NoOut
        /\ UNCHANGED <<active, trait, show, declare_window, output, binds>>
        /\ has' = [i \in Id0 |-> IF i \in visits THEN has[i] \ ChildsReset ELSE has[i]]
        /\ error_count' = error_count + Cardinality(level[kProfMaxDepth + 1])

----------------------------------------------------------------------------
(* Output                                                                  *)

SetOutputFunc(set) ==
    /\ output' = set
    /\ out' = NoOut
    /\ UNCHANGED <<active, trait, show, declare_window, has, error_count, binds>>

\* The lines of the first n of several calls.
Collected(runs, n) == FlattenSeq([k \in 1 .. n |-> runs[k].lines])

\* The calls for the childs of i, up to the first that fails.
ChildsOutput(i, d, runs) ==
    LET failed == {k \in 1 .. Len(runs) : runs[k].ret < 0}
        first == CHOOSE k \in failed : \A j \in failed : k <= j
    IN  IF failed = {}
        THEN [lines |-> << <<i, d>> >> \o Collected(runs, Len(runs)), ret |-> 0]
        ELSE [lines |-> << <<i, d>> >> \o Collected(runs, first), ret |-> runs[first].ret]

\* RecursiveOutput(i, d, ...) below the call's own depth-0 check: the entries
\* printed and the value returned; deeper: the same for the entries at d + 1.
RecursiveOutput(i, d, deeper) ==
    IF ~active[i] \/ trait[i].name = "out" \/ ~trait[i].clk
    THEN [lines |-> <<>>, ret |-> 0]
    ELSE IF trait[i].name = "long" THEN [lines |-> <<>>, ret |-> -5]
    ELSE IF d > kProfMaxDepth THEN [lines |-> << <<i, d>> >>, ret |-> -4]
    ELSE ChildsOutput(i, d, [k \in 1 .. Len(Childs(i)) |-> deeper[Childs(i)[k]]])

Walk ==
    LET walk[d \in 0 .. kProfMaxDepth + 1] ==
            LET deeper == IF d > kProfMaxDepth THEN <<>> ELSE walk[d + 1]
            IN  [i \in Id0 |-> RecursiveOutput(i, d, deeper)]
    IN  walk[0]

\* RecursiveOutput at depth 0: an entry shown below another one is skipped.
Top(i, walk) ==
    IF ~output THEN [lines |-> <<>>, ret |-> -3]
    ELSE IF upper[i] # 0 THEN [lines |-> <<>>, ret |-> 0]
    ELSE walk[i]

\* The ids OutputReport's loop over the declared entries stops at.
Stops ==
    LET from[i \in declare_begin_id .. 2 * end_id] ==
            IF i >= declare_window THEN <<>> ELSE <<i>> \o from[i + jumps[i] + 1]
    IN  from[declare_begin_id]

Flags == {"inner", "reserve", "declare"}

\* The ids of a part of the report.
Part == [inner   |-> begin_id .. kInnerMax - 1,
         reserve |-> reserve_begin_id .. reserve_end_id - 1,
         declare |-> Declared]

\* The entries for which a report calls RecursiveOutput.
Calls(flags) ==
    (IF "inner" \in flags THEN [k \in 1 .. kInnerMax - 1 |-> k] ELSE <<>>)
    \o (IF "reserve" \in flags
        THEN [k \in 1 .. kReserve |-> reserve_begin_id + k - 1] ELSE <<>>)
    \o (IF "declare" \in flags THEN Stops ELSE <<>>)

\* The loops ignore what RecursiveOutput returns.
OutputReport(flags) ==
    /\ output
    /\ LET ids == Calls(flags)
           walk == Walk
       IN  out' = [top   |-> UNION {Part[f] : f \in flags},
                   lines |-> Collected([k \in 1 .. Len(ids) |-> Top(ids[k], walk)], Len(ids))]
    /\ UNCHANGED <<active, trait, show, declare_window, has, output, error_count, binds>>

OutputOneRecord(i) ==
    /\ out' = [top |-> {i}, lines |-> Top(i, Walk).lines]
    /\ UNCHANGED <<active, trait, show, declare_window, has, output, error_count, binds>>

\* Prints entry 0 under a name of the caller's and clears it.
OutputTempRecord(name) ==
    LET printed == /\ output /\ active[0]
                   /\ trait[0].clk /\ trait[0].name # "out" /\ name # "long"
    IN  /\ out' = [top |-> {}, lines |-> IF printed THEN << <<0, 0>> >> ELSE <<>>]
        /\ has' = [has EXCEPT ![0] = {}]
        /\ UNCHANGED <<active, trait, show, declare_window, output, error_count, binds>>

----------------------------------------------------------------------------
(* The client                                                              *)

HasChilds(i) == \E c \in Id : upper[c] = i

\* The client's discipline on registering an active entry again.
ClientMayRegist(i) ==
    /\ "parent" \in ReReg \/ ~HasChilds(i)
    /\ "child" \in ReReg \/ upper[i] = 0

Next ==
    \/ (\A i \in 1 .. kInnerMax - 1 : ClientMayRegist(i)) /\ InitRecord
    \/ \E i \in Id, name \in Names, clk \in Clocks, res \in Residents, re_reg \in BOOLEAN :
         /\ ClientMayRegist(i)
         /\ Regist(i, [name |-> name, clk |-> clk, resident |-> res], re_reg)
    \/ \E i \in Id, name \in Names : Rename(i, name)
    \/ \E p, c \in Id : BindChilds(p, c)
    \/ BuildJumpPath
    \/ \E i \in Id0, f \in Fields : Record(i, f)
    \/ \E keep \in BOOLEAN : ResetRangeNode(reserve_begin_id, reserve_end_id, keep)
    \/ \E keep \in BOOLEAN : ResetRangeNode(declare_begin_id, declare_end_id, keep)
    \/ \E p \in Id : ResetChilds(p)
    \/ \E set \in BOOLEAN : SetOutputFunc(set)
    \/ \E flags \in SUBSET Flags : OutputReport(flags)
    \/ \E i \in Id : OutputOneRecord(i)
    \/ \E name \in Names : OutputTempRecord(name)

Spec == Init /\ [][Next]_vars

----------------------------------------------------------------------------
(* Properties                                                              *)

\* The types of show_.
ShowTypeOK ==
    /\ upper \in [Id0 -> Id0]
    /\ child \in [Id0 -> Id0]
    /\ window \in [Id0 -> 0 .. end_id]
    /\ jumps \in [Id0 -> 0 .. end_id]

\* The loops over a window (RecursiveOutput, ResetChilds) stay inside show_.
WindowInBounds ==
    \A p \in Id0 : /\ child[p] + window[p] <= end_id
                   /\ window[p] > 0 <=> child[p] > 0

\* An entry shown below p lies in p's window, however often and in whatever
\* order entries are bound and moved; outside it, no walk would find it.
WindowCovers ==
    \A c \in Id : upper[c] # 0 =>
        c \in child[upper[c]] .. child[upper[c]] + window[upper[c]] - 1

\* The jumps of a report never pass a top-level entry and never leave the
\* declared ids, whatever was bound or registered since BuildJumpPath.
JumpsSafe ==
    \A i \in Declared : /\ i + jumps[i] < declare_end_id
                        /\ \A j \in i + 1 .. i + jumps[i] : upper[j] # 0

\* The entry d levels above n, 0 when there is none.
UpperAt(n) ==
    LET up[d \in 0 .. kProfMaxDepth + 1] ==
            IF d = 0 THEN n ELSE IF up[d - 1] = 0 THEN 0 ELSE upper[up[d - 1]]
    IN  up

\* n is shown d levels below r.
ShownAt(n, r, d) == UpperAt(n)[d] = r

\* r and what is shown below it, to the depth limit and one more.
Tree(r) == {n \in Id : \E d \in 0 .. kProfMaxDepth + 1 : ShownAt(n, r, d)}

\* Nothing in the tree of r keeps RecursiveOutput from printing all of it, and
\* it ends above the depth limit.
Printable(r) ==
    \A n \in Tree(r) : /\ active[n] /\ trait[n].clk /\ trait[n].name = "ok"
                       /\ \E d \in 0 .. kProfMaxDepth : ShownAt(n, r, d)

\* A report prints every entry of every printable top-level tree exactly once,
\* at its depth; over-deep, over-long or unprintable entries elsewhere in the
\* report do not take anything from it.
ReportComplete ==
    output => \A r \in out.top : upper[r] = 0 /\ active[r] /\ Printable(r) =>
        \A n \in Tree(r) :
            \E k \in 1 .. Len(out.lines) :
                /\ out.lines[k][1] = n /\ ShownAt(n, r, out.lines[k][2])
                /\ \A j \in 1 .. Len(out.lines) : out.lines[j][1] = n => j = k

\* A report prints registered entries only, none twice, each as deep as it is
\* below a top-level entry that was asked for.
ReportSound ==
    out.top # {} =>
        /\ \A j, k \in 1 .. Len(out.lines) : out.lines[j][1] = out.lines[k][1] => j = k
        /\ \A k \in 1 .. Len(out.lines) :
             LET n == out.lines[k][1]
                 r == UpperAt(n)[out.lines[k][2]]
             IN  active[n] /\ r \in out.top /\ upper[r] = 0

\* A report is exact: it prints what is bound below the entries it was asked
\* for, whole, once and at the right depth, and nothing else.
ReportExact == ReportComplete /\ ReportSound

\* A step that is ResetChilds(p) clears cpu, mem, timer and user of the entries
\* shown at most kProfMaxDepth + 1 levels below p and touches no other entry (when
\* nothing is recorded there is nothing to clear).
ResetScope ==
    (\E n \in Id0 : has[n] # {}) =>
        \A p \in Id : ResetChilds(p) =>
            \A n \in Id0 : has'[n] = IF n \in Tree(p) THEN has[n] \cap {"vm"} ELSE has[n]

\* ResetChilds walks the windows that binds and moves in any order have left:
\* it clears exactly the entries shown below p, to the depth limit and one more.
ResetsInScope == [][ResetScope]_vars

=============================================================================
