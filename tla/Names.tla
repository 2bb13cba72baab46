------------------------------- MODULE Names -------------------------------
(***************************************************************************)
(* The compact name buffer of a Record: compact_data_, one array for the   *)
(* title and for all names, each closed by a zero, written to its end by   *)
(* the Report compact_writer_ and never given back.  An entry's trait      *)
(* holds where its name begins and how long it is.                         *)
(*                                                                         *)
(* A byte is 0, Unset, or the number of the text it belongs to; buff_len   *)
(* is compact_data_size().                                                 *)
(***************************************************************************)
EXTENDS Report

CONSTANTS
    Entries,      \* ids begin_id() .. end_id()-1 in use
    Lens,         \* lengths of names and titles
    Behind,       \* what strlen may find when it begins behind compact_data_
    MaxTexts      \* bound: texts stored after the constructor's three

ASSUME NamesAssumption ==
    /\ Entries # {} /\ Entries \subseteq Nat \ {0}
    /\ Lens \subseteq Nat /\ Behind \subseteq Nat /\ Behind # {}
    /\ MaxTexts \in Nat
    /\ buff_len > 49

VARIABLES
    data,       \* compact_data_
    writer,     \* compact_writer_
    trait,      \* name and name_len of traits_[i]
    title,      \* title_
    texts,      \* number of the last text given, stored or not
    given       \* history: number and length of what an entry (0: the title) was named

namesVars == <<data, writer, trait, title, texts, given>>

Unset == -1

Index == 0 .. buff_len - 1

Unnamed == [text |-> 0, len |-> 0]

\* The texts of the constructor: "unknown", "reserve" and the name of entries
\* whose own is empty.
unknown_desc == 0

reserve_desc == 8

no_name_space == 16

no_name_space_len == 32

NamesInit ==
    /\ data = [k \in Index |-> IF k < 7 THEN 1 ELSE IF k = 7 THEN 0
                               ELSE IF k < 15 THEN 2 ELSE IF k = 15 THEN 0
                               ELSE IF k < 48 THEN 3 ELSE IF k = 48 THEN 0
                               ELSE Unset]
    /\ writer = [offset |-> 49, whole |-> TRUE]
    /\ trait = [i \in Entries |-> [name |-> 0, name_len |-> 0]]
    /\ title = unknown_desc
    /\ texts = 3
    /\ given = [i \in Entries \cup {0} |-> Unnamed]

\* Mutant: the zero is not pushed, only written by ClosingString.
StoredOpen(text, len) ==
    LET put == PushString(writer, len)
    IN  [writer |-> put,
         data |-> [k \in Index |-> IF k = ClosedAt(put) THEN 0
                                   ELSE IF writer.offset <= k /\ k < put.offset THEN text
                                   ELSE data[k]]]

\* PushString(text), PushChar('\0'), ClosingString(): each as far as there is
\* room, and the last byte of a full buffer becomes the zero.
Stored(text, len) ==
    LET put    == PushString(writer, len)
        closed == PushChar(put, 1)
    IN  [writer |-> closed,
         data |-> [k \in Index |->
                     IF k = ClosedAt(closed) \/ (put.offset <= k /\ k < closed.offset) THEN 0
                     ELSE IF writer.offset <= k /\ k < put.offset THEN text
                     ELSE data[k]]]

\* What strlen(&d[from]) may return: a string that nothing closes before the
\* end of the array goes on in whatever the build puts behind it.
StrLen(d, from) ==
    LET zeros == {k \in from .. buff_len - 1 : d[k] = 0}
    IN  IF zeros = {} THEN {buff_len - from + b : b \in Behind}
        ELSE {k - from : k \in {k \in zeros : \A j \in zeros : k <= j}}

\* Rename(idx, name), also as Regist calls it.
Rename(i, len) ==
    LET s == Stored(texts + 1, len)
    IN  /\ texts < 3 + MaxTexts
        /\ data' = s.data
        /\ writer' = s.writer
        /\ \E n \in StrLen(s.data, writer.offset) :
             trait' = [trait EXCEPT ![i] =
                         IF n = 0 THEN [name |-> no_name_space, name_len |-> no_name_space_len]
                         ELSE [name |-> writer.offset, name_len |-> n]]
        /\ texts' = texts + 1
        /\ given' = [given EXCEPT ![i] = [text |-> texts + 1, len |-> len]]
        /\ UNCHANGED title

\* Rename(idx, "reserve"), which Init does for every reserve entry.
RenameReserve(i) ==
    /\ trait' = [trait EXCEPT ![i] = [name |-> reserve_desc, name_len |-> 7]]
    /\ given' = [given EXCEPT ![i] = [text |-> 2, len |-> 7]]
    /\ UNCHANGED <<data, writer, title, texts>>

\* Mutant: the last byte counts as room.
IsFullLate(w) == w.offset >= buff_len

IsFull(w) == w.offset + 1 >= buff_len

\* Init(title): the title is stored before the profiler's own entries are named.
InitTitle(len) ==
    LET s == Stored(texts + 1, len)
    IN  /\ texts < 3 + MaxTexts
        /\ IF IsFull(writer)
           THEN /\ title' = unknown_desc
                /\ UNCHANGED <<data, writer>>
           ELSE /\ title' = writer.offset
                /\ data' = s.data
                /\ writer' = s.writer
        /\ texts' = texts + 1
        /\ given' = [given EXCEPT ![0] = [text |-> texts + 1, len |-> len]]
        /\ UNCHANGED trait

\* Init(NULL)
InitNoTitle ==
    /\ title' = unknown_desc
    /\ given' = [given EXCEPT ![0] = Unnamed]
    /\ UNCHANGED <<data, writer, trait, texts>>

NamesNext ==
    \/ \E i \in Entries, len \in Lens : Rename(i, len)
    \/ \E i \in Entries : RenameReserve(i)
    \/ \E len \in Lens : InitTitle(len)
    \/ InitNoTitle

NamesSpec == NamesInit /\ [][NamesNext]_namesVars

----------------------------------------------------------------------------
(* Properties                                                              *)

\* The bytes from from on, n of them, are text's and a zero closes them.
Holds(from, n, text) ==
    /\ from + n < buff_len
    /\ data[from + n] = 0
    /\ \A k \in from .. from + n - 1 : data[k] = text

\* A name that lies in the buffer is what Rename was last given, whole unless
\* the buffer ends, and whatever is named after it leaves it alone; an empty
\* one, or one that finds only the last byte, is the constructor's replacement.
NamesKept ==
    \A i \in Entries :
        LET t == trait[i]
            g == given[i]
        IN  g # Unnamed /\ t.name < buff_len =>
              IF t.name = no_name_space
              THEN /\ Holds(t.name, t.name_len, 3)
                   /\ g.len = 0 \/ writer.offset = buff_len
              ELSE /\ Holds(t.name, t.name_len, g.text)
                   /\ t.name_len = g.len \/ t.name + t.name_len = buff_len - 1

\* The title is what Init was last given, at least its first letter, or
\* "unknown" when there was no room for one.
TitleKept ==
    LET g == given[0]
    IN  IF title = unknown_desc
        THEN Holds(title, 7, 1) /\ (g = Unnamed \/ IsFull(writer))
        ELSE \E n \in 0 .. g.len : /\ Holds(title, n, g.text)
                                   /\ n > 0 \/ g.len = 0

\* An entry named when the buffer is full has the empty name, by the comment in
\* Rename, and so goes by the constructor's "null(name empty or over buffers)".
FullIsReplaced ==
    \A i \in Entries : given[i] # Unnamed => trait[i].name < buff_len

=============================================================================
