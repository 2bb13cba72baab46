------------------------------- MODULE Lines -------------------------------
(***************************************************************************)
(* The lines a Record writes with one Report: the title, the columns and   *)
(* the end of OutputReport, and for every entry RecursiveOutput prints the *)
(* cpu, mem, vm and user lines of the data the entry holds.                *)
(*                                                                         *)
(* A call is unfolded into the sequence of what it pushes (todo), one push *)
(* per step; how long the pushed values are is chosen at the push.         *)
(***************************************************************************)
EXTENDS Report, SequencesExt

CONSTANTS
    TitleLens,      \* lengths of titles
    HugeTitleLens,  \* lengths of titles for which LINE_BUFF_SIZE is too short
    NameLens,       \* lengths of entry names
    Depths,         \* depths at which entries are printed
    Holdings,       \* kinds of data an entry may hold
    IdDigits,       \* digits of an entry's id
    Counts,         \* <<digits of the first group, groups>> of a count
    TimeDigits,     \* digits of a time before the point
    HugeTimeDigits, \* digits of the times that may not fit with the rest of a line
    Sizes,          \* <<digits before the point or the unit, has a fraction>> of a size
    MaxDepth,       \* kProfMaxDepth
    DescMax,        \* kProfDescMaxSize
    Align           \* kRecordFormatAlignSize

ASSUME LinesAssumption ==
    /\ TitleLens \subseteq Nat /\ HugeTitleLens \subseteq Nat
    /\ NameLens \subseteq Nat /\ Depths \subseteq Nat
    /\ Holdings \subseteq SUBSET {"cpu", "mem", "vm", "user"}
    /\ IdDigits \subseteq 1 .. 10
    /\ Counts \subseteq (1 .. 20) \X (1 .. 3)
    /\ TimeDigits \subseteq 1 .. 10 /\ HugeTimeDigits \subseteq 1 .. 10
    /\ Sizes \subseteq (1 .. 20) \X BOOLEAN
    /\ MaxDepth \in Nat /\ DescMax \in Nat /\ Align \in Nat

VARIABLES
    rp,       \* the Report
    todo,     \* what the running output call has still to push
    huge,     \* the running call may meet huge values
    whole     \* history: the lines of the running call had all that was pushed

lineVars == <<rp, todo, huge, whole>>

Op == {"char", "string", "run", "number", "count", "time", "mem", "date", "out"}

\* n: a length; of a number its minimal width, which PushNumber pads inside a
\* local buffer of kU64MaxCharLen bytes.
Field == {f \in [op : Op, n : Nat] : f.op = "number" => f.n <= kU64MaxCharLen}

Str(n) == [op |-> "string", n |-> n]

Chr(n) == [op |-> "char", n |-> n]

Run(n) == [op |-> "run", n |-> n]

Num(wide) == [op |-> "number", n |-> wide]

Count == [op |-> "count", n |-> 0]

Time == [op |-> "time", n |-> 0]

Mem == [op |-> "mem", n |-> 0]

Date == [op |-> "date", n |-> 0]

\* OutputAndClean
Out == [op |-> "out", n |-> 0]

----------------------------------------------------------------------------
(* What the calls push                                                     *)

\* name_padding of RecursiveOutput.
Padding(name_len, depth) ==
    IF name_len + 2 * depth < Align THEN Align - name_len - 2 * depth ELSE 0

\* The head of an entry's line, its kind included.
EntryHead(name_len, depth, kind) ==
    <<Run(2 * depth), Str(1), Num(3), Str(2), Str(name_len),
      Run(Padding(name_len, depth)), Str(2), Str(kind)>>

\* OutputCpu; parts: which of max-min, dv-sm and h-l are printed.
CpuLine(name_len, depth, parts) ==
    EntryHead(name_len, depth, 9)
    \o <<Count, Str(3), Time, Str(2), Time>>
    \o (IF "max" \in parts THEN <<Str(17), Time, Str(2), Time>> ELSE <<>>)
    \o (IF "sm" \in parts THEN <<Str(15), Time, Str(2), Time>> ELSE <<>>)
    \o (IF "hl" \in parts THEN <<Str(13), Time, Str(2), Time>> ELSE <<>>)
    \o <<Str(4), Out>>

\* OutputMem; delta_ is never set, so its part is never printed.
MemLine(name_len, depth) ==
    EntryHead(name_len, depth, 9)
    \o <<Count, Str(3), Mem, Str(2), Mem, Str(8), Str(4), Out>>

\* OutputVm
VmLine(name_len, depth) ==
    EntryHead(name_len, depth, 9)
    \o <<Mem, Str(6), Mem, Str(7), Mem, Str(7), Mem, Str(5), Str(4), Out>>

\* OutputUser
UserLine(name_len, depth) ==
    EntryHead(name_len, depth, 10)
    \o <<Count, Str(4), Count, Str(4), Count, Str(4), Count, Str(4), Out>>

\* The line that ends a branch which is too deep.
DeepLine(depth) == IF depth > MaxDepth THEN <<Run(2 * depth), Out>> ELSE <<>>

\* OutputReport: an empty line, the title and the names of the columns.
TitleLines(title_len) ==
    <<Out>>
    \o <<Chr(30), Chr(1), Str(title_len), Str(19), Date, Str(18), Time, Str(19), Time,
         Chr(1), Chr(1), Chr(30), Out>>
    \o <<Str(150), Out, Str(112), Out, Str(96), Out, Str(86), Out>>

\* OutputReport: the last lines.
EndLines == <<Chr(30), Chr(1), Str(7), Date, Chr(1), Chr(30), Out, Out>>

----------------------------------------------------------------------------
(* The steps                                                               *)

LineInit ==
    /\ rp = Empty
    /\ todo = <<>>
    /\ huge = FALSE
    /\ whole = TRUE

\* Every call but Part begins with a new StaticReport or with reset_offset().
Begin(fields, h) ==
    /\ todo = <<>>
    /\ rp' = Empty
    /\ todo' = fields
    /\ huge' = h
    /\ whole' = TRUE

\* The head of OutputReport.
Title ==
    \/ \E title_len \in TitleLens : Begin(TitleLines(title_len), FALSE)
    \/ \E title_len \in TitleLens \cup HugeTitleLens : Begin(TitleLines(title_len), TRUE)

\* A part of the report begins.  Nothing resets the buffer before its line
\* feed, so those of the three parts may pile up until an entry is printed.
Part ==
    /\ todo = <<>> /\ rp.offset < 3
    /\ todo' = <<Str(1)>>
    /\ UNCHANGED <<rp, huge, whole>>

\* RecursiveOutput for one entry with the data in has; a name that is too long
\* is refused before the buffer is touched.
Entry ==
    \E name_len \in NameLens, depth \in Depths,
       has \in Holdings, parts \in SUBSET {"max", "sm", "hl"}, h \in BOOLEAN :
        /\ name_len + Padding(name_len, depth) <= DescMax
        /\ Begin((IF "cpu" \in has THEN CpuLine(name_len, depth, parts) ELSE <<>>)
                 \o (IF "mem" \in has THEN MemLine(name_len, depth) ELSE <<>>)
                 \o (IF "vm" \in has THEN VmLine(name_len, depth) ELSE <<>>)
                 \o (IF "user" \in has THEN UserLine(name_len, depth) ELSE <<>>)
                 \o DeepLine(depth), h)

\* The tail of OutputReport.
End == Begin(EndLines, FALSE)

Times == IF huge THEN TimeDigits \cup HugeTimeDigits ELSE TimeDigits

\* The writer after field f was pushed, for every length of its value.
Pushed(w, f) ==
    CASE f.op = "char" -> {PushChar(w, f.n)}
      [] f.op = "string" -> {PushString(w, f.n)}
      [] f.op = "run" -> {PushRun(w, f.n)}
      [] f.op = "number" -> {PushNumber(w, d, f.n) : d \in IdDigits}
      [] f.op = "count" -> {PushHumanCount(w, c[1], c[2]) : c \in Counts}
      [] f.op = "time" -> {PushHumanTime(w, neg, d) : neg \in BOOLEAN, d \in Times}
      [] f.op = "mem" -> {PushHumanMem(w, s[1], s[2]) : s \in Sizes}
      [] f.op = "date" -> {PushDate(w)}

Push ==
    /\ todo # <<>> /\ Head(todo).op # "out"
    /\ rp' \in Pushed(rp, Head(todo))
    /\ todo' = Tail(todo)
    /\ UNCHANGED <<huge, whole>>

\* Mutant: the offset is not reset after a line.
NotCleaned(w) == w

\* reset_offset()
Cleaned(w) == Empty

\* OutputAndClean: close the string, hand it to output_, start again.
OutputAndClean ==
    /\ todo # <<>> /\ Head(todo).op = "out"
    /\ whole' = (whole /\ rp.whole /\ ClosedAt(rp) = rp.offset)
    /\ rp' = Cleaned(rp)
    /\ todo' = Tail(todo)
    /\ UNCHANGED huge

LineNext == Title \/ Part \/ Entry \/ End \/ Push \/ OutputAndClean

LineSpec == LineInit /\ [][LineNext]_lineVars

----------------------------------------------------------------------------
(* Properties                                                              *)

\* Every variable keeps its type.
LineTypeOK ==
    /\ rp \in Writer
    /\ todo \in Seq(Field)
    /\ huge \in BOOLEAN
    /\ whole \in BOOLEAN

\* No push writes past the end of the buffer, and the zero that closes a line
\* lies inside it: with offset_ > buff_len_, buff_len_ - offset_ would wrap.
InBuffer == rp.offset <= buff_len /\ ClosedAt(rp) \in 0 .. buff_len - 1

\* How long the values may be, and the buffer that is long enough for them: for
\* a cpu line of the longest name at the greatest depth, with all its parts, and
\* for the line of the title.
LineFits ==
    /\ buff_len >= 2 * MaxDepth + DescMax + 240
    /\ \A n \in TitleLens : buff_len >= n + 171
    /\ \A n \in Depths : n <= MaxDepth + 1
    /\ \A d \in TimeDigits : d <= 8
    /\ \A d \in IdDigits : d <= 9
    /\ \A c \in Counts : c[1] + 4 * c[2] <= 25

\* Unless it meets a huge value, every line is given to output_ whole:
\* LINE_BUFF_SIZE leaves no push without room, not even the last.
LinesWhole == ~huge => whole

=============================================================================
