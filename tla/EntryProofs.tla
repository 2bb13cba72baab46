---------------------------- MODULE EntryProofs ----------------------------
(***************************************************************************)
(* Proofs about what a record keeps of its entries besides the two trees:  *)
(* names and title stay what they were given (Names), the statistics of an *)
(* entry stay in range (CpuStat), and the lines that print both stay in    *)
(* their buffer and go out whole (Lines).                                  *)
(***************************************************************************)
EXTENDS Names, CpuStat, Lines, TLAPS

-----------------------------------------------------------------------------
(* Names: for every size of the name buffer, every length and order of     *)
(* names and whatever lies behind it.                                      *)

\* Text text lies at from, n bytes long, in what is already written.
Written(from, n, text) == Holds(from, n, text) /\ from + n < writer.offset

Types ==
    /\ data \in [Index -> Int]
    /\ writer \in [offset : 49 .. buff_len, whole : BOOLEAN]
    /\ trait \in [Entries -> [name : Nat, name_len : Nat]]
    /\ title \in Nat
    /\ texts \in Nat /\ texts >= 3
    /\ given \in [Entries \cup {0} -> [text : Nat, len : Nat]]

\* A full buffer ends in a zero, which ClosingString may write again.
Closed == writer.offset = buff_len => data[buff_len - 1] = 0

\* The texts of the constructor are there.
Fixed == Written(0, 7, 1) /\ Written(8, 7, 2) /\ Written(16, 32, 3)

NameWritten(i) ==
    LET t == trait[i]
        g == given[i]
    IN  g # Unnamed /\ t.name < buff_len =>
          IF t.name = no_name_space
          THEN /\ Written(t.name, t.name_len, 3)
               /\ g.len = 0 \/ writer.offset = buff_len
          ELSE /\ Written(t.name, t.name_len, g.text)
               /\ t.name_len = g.len \/ t.name + t.name_len = buff_len - 1

TitleWritten ==
    LET g == given[0]
    IN  IF title = unknown_desc
        THEN g = Unnamed \/ IsFull(writer)
        ELSE \E n \in 0 .. g.len : /\ Written(title, n, g.text)
                                   /\ n > 0 \/ g.len = 0

IInv == Types /\ Closed /\ Fixed /\ (\A i \in Entries : NameWritten(i)) /\ TitleWritten

----------------------------------------------------------------------------
(* What storing a text does to the buffer                                  *)

\* How much of a text of length len the buffer keeps.
Kept(len) == IF writer.offset + len < buff_len THEN len ELSE buff_len - 1 - writer.offset

LEMMA StoredFacts ==
    ASSUME Types, Closed, NEW text \in Nat \ {0}, NEW len \in Nat
    PROVE  /\ Stored(text, len).writer \in [offset : 49 .. buff_len, whole : BOOLEAN]
           /\ Stored(text, len).writer.offset >= writer.offset
           /\ Stored(text, len).data \in [Index -> Int]
           /\ \A k \in Index : k < writer.offset => Stored(text, len).data[k] = data[k]
           /\ Stored(text, len).writer.offset = buff_len => Stored(text, len).data[buff_len - 1] = 0
           /\ writer.offset < buff_len =>
                /\ writer.offset + Kept(len) < Stored(text, len).writer.offset
                /\ Stored(text, len).data[writer.offset + Kept(len)] = 0
                /\ \A k \in writer.offset .. writer.offset + Kept(len) - 1 :
                     Stored(text, len).data[k] = text
                /\ Kept(len) # len => Stored(text, len).writer.offset = buff_len
  <1> DEFINE o == writer.offset
             put == PushString(writer, len)
             closed == PushChar(put, 1)
             s == Stored(text, len)
  <1>1. o \in 49 .. buff_len /\ writer \in [offset : 49 .. buff_len, whole : BOOLEAN]
        /\ buff_len \in Nat /\ buff_len > 49
    BY NamesAssumption, BuffLenAssumption DEF Types
  <1>2. /\ put \in [offset : 49 .. buff_len, whole : BOOLEAN]
        /\ put.offset = IF o + len <= buff_len THEN o + len ELSE buff_len
    BY <1>1 DEF PushString, Room, Wrote, Cut
  <1> HIDE DEF put
  <1>3. /\ closed \in [offset : 49 .. buff_len, whole : BOOLEAN]
        /\ closed.offset = IF put.offset + 1 <= buff_len THEN put.offset + 1 ELSE buff_len
    BY <1>1, <1>2 DEF PushChar, Room, Wrote, Cut
  <1> HIDE DEF closed
  <1>4. s.writer = closed
        /\ s.data = [k \in Index |->
                     IF k = ClosedAt(closed) \/ (put.offset <= k /\ k < closed.offset) THEN 0
                     ELSE IF o <= k /\ k < put.offset THEN text
                     ELSE data[k]]
    BY DEF Stored, put, closed
  <1> HIDE DEF s
  <1>5. ClosedAt(closed) = IF closed.offset = buff_len THEN buff_len - 1 ELSE closed.offset
    BY <1>1, <1>3 DEF ClosedAt
  <1>6. s.data \in [Index -> Int]
    BY <1>4 DEF Types
  <1>7. ASSUME NEW k \in Index, k < o
        PROVE  s.data[k] = data[k]
    <2>1. k \in Int /\ 0 <= k /\ k < buff_len
      BY <1>1 DEF Index
    <2>2. CASE k = ClosedAt(closed)
      <3>1. k = buff_len - 1 /\ o = buff_len
        BY <1>1, <1>2, <1>3, <1>5, <1>7, <2>1, <2>2
      <3>2. data[k] = 0
        BY <3>1 DEF Closed
      <3> QED BY <1>4, <2>2, <3>2
    <2>3. CASE k # ClosedAt(closed)
      BY <1>1, <1>2, <1>3, <1>4, <1>7, <2>1, <2>3
    <2> QED BY <2>2, <2>3
  <1>8. closed.offset = buff_len => s.data[buff_len - 1] = 0
    <2>1. buff_len - 1 \in Index
      BY <1>1 DEF Index
    <2> QED BY <1>4, <1>5, <2>1
  <1>9. ASSUME o < buff_len
        PROVE  /\ o + Kept(len) < closed.offset
               /\ s.data[o + Kept(len)] = 0
               /\ \A k \in o .. o + Kept(len) - 1 : s.data[k] = text
               /\ Kept(len) # len => closed.offset = buff_len
    <2>1. Kept(len) \in Nat /\ o + Kept(len) \in Index
      BY <1>1, <1>9 DEF Kept, Index
    <2>2. o + Kept(len) < closed.offset /\ (Kept(len) # len => closed.offset = buff_len)
      BY <1>1, <1>2, <1>3, <1>9 DEF Kept
    <2>3. s.data[o + Kept(len)] = 0
      <3>1. CASE o + len < buff_len
        BY <1>1, <1>2, <1>3, <1>4, <2>1, <3>1 DEF Kept
      <3>2. CASE ~(o + len < buff_len)
        BY <1>1, <1>2, <1>3, <1>4, <1>5, <1>9, <2>1, <3>2 DEF Kept
      <3> QED BY <3>1, <3>2
    <2>4. ASSUME NEW k \in o .. o + Kept(len) - 1
          PROVE  s.data[k] = text
      <3>1. k \in Index /\ k \in Int /\ o <= k /\ k < o + Kept(len)
        BY <1>1, <2>1 DEF Index
      <3>2. k < put.offset /\ k < buff_len - 1
        BY <1>1, <1>2, <1>9, <3>1 DEF Kept
      <3>3. k # ClosedAt(closed)
        BY <1>1, <1>2, <1>3, <1>5, <3>1, <3>2
      <3> QED BY <1>1, <1>2, <1>4, <3>1, <3>2, <3>3
    <2> QED BY <2>2, <2>3, <2>4
  <1>10. s.writer \in [offset : 49 .. buff_len, whole : BOOLEAN] /\ s.writer.offset >= o
    BY <1>1, <1>2, <1>3, <1>4
  <1>11. /\ \A k \in Index : k < o => s.data[k] = data[k]
         /\ s.writer.offset = buff_len => s.data[buff_len - 1] = 0
    BY <1>4, <1>7, <1>8
  <1>12. o < buff_len => /\ o + Kept(len) < s.writer.offset
                         /\ s.data[o + Kept(len)] = 0
                         /\ \A k \in o .. o + Kept(len) - 1 : s.data[k] = text
                         /\ Kept(len) # len => s.writer.offset = buff_len
    BY <1>4, <1>9
  <1> QED BY <1>6, <1>10, <1>11, <1>12, Zenon DEF s

\* What was written stays so.
LEMMA WrittenKept ==
    ASSUME Types, Closed, NEW text \in Nat \ {0}, NEW len \in Nat,
           data' = Stored(text, len).data, writer' = Stored(text, len).writer,
           NEW from \in Nat, NEW n \in Nat, NEW old \in Nat, Written(from, n, old)
    PROVE  Written(from, n, old)'
  <1>1. /\ writer'.offset >= writer.offset /\ writer'.offset \in Nat
        /\ \A k \in Index : k < writer.offset => data'[k] = data[k]
    BY StoredFacts
  <1>2. writer.offset \in Nat /\ buff_len \in Nat
    BY BuffLenAssumption DEF Types
  <1>3. from + n < writer.offset /\ from + n < buff_len /\ data[from + n] = 0
        /\ \A k \in from .. from + n - 1 : data[k] = old
    BY DEF Written, Holds
  <1>4. data'[from + n] = 0
    BY <1>1, <1>2, <1>3 DEF Index
  <1>5. ASSUME NEW k \in from .. from + n - 1
        PROVE  data'[k] = old
    BY <1>1, <1>2, <1>3 DEF Index
  <1> QED BY <1>1, <1>2, <1>3, <1>4, <1>5 DEF Written, Holds

\* The text just stored is there, as much of it as fits.
LEMMA NewWritten ==
    ASSUME Types, Closed, NEW text \in Nat \ {0}, NEW len \in Nat,
           data' = Stored(text, len).data, writer' = Stored(text, len).writer,
           NEW o \in Nat, o = writer.offset, o < buff_len,
           NEW m, m = Kept(len)
    PROVE  /\ m \in Nat /\ m <= len
           /\ Written(o, m, text)'
           /\ m # len => o + m = buff_len - 1 /\ writer'.offset = buff_len
  <1>1. buff_len \in Nat
    BY BuffLenAssumption
  <1>2. m \in Nat /\ m <= len /\ o + m < buff_len /\ (m # len => o + m = buff_len - 1)
    BY <1>1 DEF Kept
  <1>3. /\ o + m < writer'.offset
        /\ data'[o + m] = 0
        /\ \A k \in o .. o + m - 1 : data'[k] = text
        /\ m # len => writer'.offset = buff_len
    BY StoredFacts
  <1> QED BY <1>2, <1>3 DEF Written, Holds

\* strlen finds as much of it.
LEMMA NewLength ==
    ASSUME Types, Closed, NEW text \in Nat \ {0}, NEW len \in Nat, writer.offset < buff_len
    PROVE  StrLen(Stored(text, len).data, writer.offset) = {Kept(len)}
  <1> DEFINE d == Stored(text, len).data
             o == writer.offset
             zeros == {k \in o .. buff_len - 1 : d[k] = 0}
  <1>1. o \in Nat /\ buff_len \in Nat
    BY BuffLenAssumption DEF Types
  <1>2. Kept(len) \in Nat /\ o + Kept(len) \in o .. buff_len - 1
    BY <1>1 DEF Kept
  <1>3. d[o + Kept(len)] = 0 /\ \A k \in o .. o + Kept(len) - 1 : d[k] # 0
    BY StoredFacts
  <1> HIDE DEF d, o
  <1>4. o + Kept(len) \in zeros
    BY <1>2, <1>3
  <1>5. \A k \in zeros : o + Kept(len) <= k
    BY <1>1, <1>2, <1>3
  <1>6. {k \in zeros : \A j \in zeros : k <= j} = {o + Kept(len)}
    BY <1>1, <1>2, <1>4, <1>5
  <1>7. StrLen(d, o) = {k - o : k \in {k \in zeros : \A j \in zeros : k <= j}}
    BY <1>4 DEF StrLen
  <1>8. {k - o : k \in {o + Kept(len)}} = {Kept(len)}
    BY <1>1, <1>2
  <1> QED BY <1>6, <1>7, <1>8 DEF d, o

----------------------------------------------------------------------------
(* The inductive invariant                                                 *)

LEMMA InitIInv == NamesInit => IInv
  <1> SUFFICES ASSUME NamesInit PROVE IInv
    OBVIOUS
  <1>0. buff_len \in Nat /\ buff_len > 49 /\ Index = 0 .. buff_len - 1
    BY NamesAssumption, BuffLenAssumption DEF Index
  <1>1. Types
    BY <1>0 DEF NamesInit, Types, Unnamed, unknown_desc, Unset
  <1>2. Closed
    BY <1>0 DEF NamesInit, Closed
  <1>3. Fixed
    BY <1>0 DEF NamesInit, Fixed, Written, Holds
  <1>4. \A i \in Entries : NameWritten(i)
    BY DEF NamesInit, NameWritten
  <1>5. TitleWritten
    BY DEF NamesInit, TitleWritten
  <1> QED BY <1>1, <1>2, <1>3, <1>4, <1>5 DEF IInv

\* Storing a text keeps every name that is not renamed.
LEMMA OthersKept ==
    ASSUME IInv, NEW text \in Nat \ {0}, NEW len \in Nat,
           data' = Stored(text, len).data, writer' = Stored(text, len).writer
    PROVE  /\ Closed' /\ Fixed'
           /\ \A i \in Entries :
                trait'[i] = trait[i] /\ given'[i] = given[i] => NameWritten(i)'
           /\ title' = title /\ given'[0] = given[0] => TitleWritten'
  <1>0. /\ Types /\ Closed /\ Fixed /\ TitleWritten
        /\ \A i \in Entries : NameWritten(i)
    BY DEF IInv
  <1>1. \A from, n, old \in Nat : Written(from, n, old) => Written(from, n, old)'
    BY <1>0, WrittenKept
  <1>2. /\ writer.offset \in Nat /\ writer'.offset \in 49 .. buff_len
        /\ writer'.offset >= writer.offset /\ buff_len \in Nat
        /\ writer.offset <= buff_len
    BY <1>0, StoredFacts, BuffLenAssumption DEF Types
  <1>3. Closed'
    <2>1. Types /\ Closed
      BY <1>0
    <2>2. Stored(text, len).writer.offset = buff_len => Stored(text, len).data[buff_len - 1] = 0
      BY <2>1, StoredFacts
    <2> QED BY <2>2 DEF Closed
  <1>4. Fixed'
    BY <1>0, <1>1 DEF Fixed
  <1>5. ASSUME NEW i \in Entries, trait'[i] = trait[i], given'[i] = given[i]
        PROVE  NameWritten(i)'
    <2>1. trait[i].name \in Nat /\ trait[i].name_len \in Nat /\ given[i].text \in Nat
      BY <1>0 DEF Types
    <2>2. NameWritten(i)
      BY <1>0
    <2>3. writer.offset = buff_len => writer'.offset = buff_len
      BY <1>2
    <2> QED BY <1>1, <1>5, <2>1, <2>2, <2>3 DEF NameWritten
  <1>6. ASSUME title' = title, given'[0] = given[0]
        PROVE  TitleWritten'
    <2>1. title \in Nat /\ given[0].text \in Nat /\ given[0].len \in Nat
      BY <1>0 DEF Types
    <2>2. IsFull(writer) => IsFull(writer')
      BY <1>2 DEF IsFull
    <2>3. \A n \in 0 .. given[0].len :
            Written(title, n, given[0].text) => Written(title, n, given[0].text)'
      BY <1>1, <1>6, <2>1
    <2> QED BY <1>0, <1>6, <2>1, <2>2, <2>3 DEF TitleWritten
  <1> QED BY <1>3, <1>4, <1>5, <1>6

LEMMA RenameIInv ==
    ASSUME IInv, NEW i \in Entries, NEW len \in Lens, Rename(i, len)
    PROVE  IInv'
  <1>a. PICK text : text = texts + 1
    OBVIOUS
  <1>b. PICK o : o = writer.offset
    OBVIOUS
  <1>0. /\ Types /\ Closed /\ Fixed /\ buff_len \in Nat /\ buff_len > 49
        /\ text \in Nat \ {0} /\ len \in Nat /\ o \in 49 .. buff_len
    BY <1>a, <1>b, NamesAssumption, BuffLenAssumption DEF IInv, Types
  <1>1. PICK n \in StrLen(Stored(text, len).data, o) :
          trait' = [trait EXCEPT ![i] =
                      IF n = 0 THEN [name |-> no_name_space, name_len |-> no_name_space_len]
                      ELSE [name |-> o, name_len |-> n]]
    BY <1>a, <1>b DEF Rename
  <1>2. /\ data' = Stored(text, len).data /\ writer' = Stored(text, len).writer
        /\ texts' = text /\ title' = title
        /\ given' = [given EXCEPT ![i] = [text |-> text, len |-> len]]
    BY <1>a, <1>b DEF Rename
  <1>3. n \in Nat /\ (o < buff_len => n = Kept(len))
    <2>1. CASE o < buff_len
      <3>1. n = Kept(len)
        BY <1>b, <1>0, <1>1, <2>1, NewLength
      <3> QED BY <1>b, <1>0, <2>1, <3>1 DEF Kept
    <2>2. CASE ~(o < buff_len)
      <3>1. o = buff_len
        BY <1>0, <2>2
      <3>2. StrLen(Stored(text, len).data, o) = {buff_len - o + b : b \in Behind}
        BY <1>0, <3>1 DEF StrLen
      <3> QED BY <1>0, <1>1, <2>2, <3>1, <3>2, NamesAssumption
    <2> QED BY <2>1, <2>2
  <1>4. Types'
    <2>1. data' \in [Index -> Int] /\ writer' \in [offset : 49 .. buff_len, whole : BOOLEAN]
      BY <1>0, <1>2, StoredFacts
    <2>2. trait' \in [Entries -> [name : Nat, name_len : Nat]]
      BY <1>0, <1>1, <1>3 DEF Types, no_name_space, no_name_space_len
    <2>3. texts' \in Nat /\ texts' >= 3
      BY <1>a, <1>0, <1>2 DEF Types
    <2>4. given' \in [Entries \cup {0} -> [text : Nat, len : Nat]]
      BY <1>0, <1>2 DEF Types
    <2>5. title' \in Nat
      BY <1>0, <1>2 DEF Types
    <2> QED BY <2>1, <2>2, <2>3, <2>4, <2>5 DEF Types
  <1>5. /\ Closed' /\ Fixed' /\ TitleWritten'
        /\ \A j \in Entries \ {i} : NameWritten(j)'
    <2>1. given'[0] = given[0]
      BY <1>0, <1>2, NamesAssumption DEF Types
    <2>2. \A j \in Entries \ {i} : trait'[j] = trait[j] /\ given'[j] = given[j]
      BY <1>0, <1>1, <1>2 DEF Types
    <2> QED BY <1>0, <1>2, <2>1, <2>2, OthersKept
  <1>6. NameWritten(i)'
    <2>1. given'[i] = [text |-> text, len |-> len]
      BY <1>0, <1>2 DEF Types
    <2>2. trait'[i] = IF n = 0 THEN [name |-> no_name_space, name_len |-> no_name_space_len]
                      ELSE [name |-> o, name_len |-> n]
      BY <1>0, <1>1 DEF Types
    <2>3. CASE n = 0
      <3>1. len = 0 \/ writer'.offset = buff_len
        <4>1. CASE o < buff_len
          BY <1>b, <1>0, <1>2, <1>3, <2>3, <4>1, NewWritten
        <4>2. CASE ~(o < buff_len)
          <5>1. writer' \in [offset : 49 .. buff_len, whole : BOOLEAN]
                /\ writer'.offset >= writer.offset
            BY <1>0, <1>2, StoredFacts
          <5>2. writer.offset = buff_len
            BY <1>b, <1>0, <4>2
          <5> QED BY <1>0, <5>1, <5>2
        <4> QED BY <4>1, <4>2
      <3>2. Written(16, 32, 3)'
        BY <1>5 DEF Fixed
      <3> QED BY <2>1, <2>2, <2>3, <3>1, <3>2
              DEF NameWritten, no_name_space, no_name_space_len
    <2>4. CASE n # 0 /\ o < buff_len
      <3>1. Written(o, n, text)' /\ (n = len \/ o + n = buff_len - 1)
        BY <1>b, <1>0, <1>2, <1>3, <2>4, NewWritten
      <3>2. o # no_name_space
        BY <1>0 DEF no_name_space
      <3> QED BY <2>1, <2>2, <2>4, <3>1, <3>2 DEF NameWritten
    <2>5. CASE n # 0 /\ ~(o < buff_len)
      BY <2>2, <2>5 DEF NameWritten
    <2> QED BY <2>3, <2>4, <2>5
  <1> QED BY <1>4, <1>5, <1>6 DEF IInv

LEMMA RenameReserveIInv ==
    ASSUME IInv, NEW i \in Entries, RenameReserve(i)
    PROVE  IInv'
  <1>0. /\ Types /\ Closed /\ Fixed /\ TitleWritten
        /\ \A j \in Entries : NameWritten(j)
    BY DEF IInv
  <1>1. /\ trait' = [trait EXCEPT ![i] = [name |-> reserve_desc, name_len |-> 7]]
        /\ given' = [given EXCEPT ![i] = [text |-> 2, len |-> 7]]
        /\ data' = data /\ writer' = writer /\ title' = title /\ texts' = texts
    BY DEF RenameReserve
  <1>2. Types'
    BY <1>0, <1>1 DEF Types, reserve_desc
  <1>3. Closed' /\ Fixed'
    BY <1>0, <1>1 DEF Closed, Fixed, Written, Holds
  <1>4. TitleWritten'
    <2>1. given'[0] = given[0]
      BY <1>0, <1>1, NamesAssumption DEF Types
    <2> QED BY <1>0, <1>1, <2>1 DEF TitleWritten, Written, Holds, IsFull
  <1>5. ASSUME NEW j \in Entries
        PROVE  NameWritten(j)'
    <2>1. CASE j # i
      <3>1. trait'[j] = trait[j] /\ given'[j] = given[j] /\ NameWritten(j)
        BY <1>0, <1>1, <2>1 DEF Types
      <3> QED BY <1>1, <3>1 DEF NameWritten, Written, Holds
    <2>2. CASE j = i
      <3>1. /\ trait'[j] = [name |-> reserve_desc, name_len |-> 7]
            /\ given'[j] = [text |-> 2, len |-> 7]
        BY <1>0, <1>1, <2>2 DEF Types
      <3>2. Written(8, 7, 2)'
        BY <1>3 DEF Fixed
      <3> QED BY <3>1, <3>2 DEF NameWritten, reserve_desc, no_name_space
    <2> QED BY <2>1, <2>2
  <1> QED BY <1>2, <1>3, <1>4, <1>5 DEF IInv

LEMMA InitTitleIInv ==
    ASSUME IInv, NEW len \in Lens, InitTitle(len)
    PROVE  IInv'
  <1>a. PICK text : text = texts + 1
    OBVIOUS
  <1>b. PICK o : o = writer.offset
    OBVIOUS
  <1>0. /\ Types /\ Closed /\ Fixed /\ buff_len \in Nat /\ buff_len > 49
        /\ text \in Nat \ {0} /\ len \in Nat /\ o \in 49 .. buff_len
        /\ \A j \in Entries : NameWritten(j)
    BY <1>a, <1>b, NamesAssumption, BuffLenAssumption DEF IInv, Types
  <1>1. /\ trait' = trait /\ texts' = text
        /\ given' = [given EXCEPT ![0] = [text |-> text, len |-> len]]
    BY <1>a DEF InitTitle
  <1>2. given'[0] = [text |-> text, len |-> len] /\ \A j \in Entries : given'[j] = given[j]
    BY <1>0, <1>1, NamesAssumption DEF Types
  <1>3. texts' \in Nat /\ texts' >= 3 /\ trait' \in [Entries -> [name : Nat, name_len : Nat]]
        /\ given' \in [Entries \cup {0} -> [text : Nat, len : Nat]]
    BY <1>a, <1>0, <1>1 DEF Types
  <1>4. CASE IsFull(writer)
    <2>1. title' = 0 /\ data' = data /\ writer' = writer
      BY <1>4 DEF InitTitle, unknown_desc
    <2>2. Types'
      BY <1>0, <1>3, <2>1 DEF Types
    <2>3. Closed' /\ Fixed'
      BY <1>0, <2>1 DEF Closed, Fixed, Written, Holds
    <2>4. TitleWritten'
      BY <1>4, <2>1 DEF TitleWritten, unknown_desc
    <2>5. \A j \in Entries : NameWritten(j)'
      BY <1>0, <1>1, <1>2, <2>1 DEF NameWritten, Written, Holds
    <2> QED BY <2>2, <2>3, <2>4, <2>5 DEF IInv
  <1>5. CASE ~IsFull(writer)
    <2>1. title' = o /\ data' = Stored(text, len).data /\ writer' = Stored(text, len).writer
      BY <1>a, <1>b, <1>5 DEF InitTitle
    <2>2. o + 1 < buff_len /\ o < buff_len
      BY <1>b, <1>0, <1>5 DEF IsFull
    <2>3. Types'
      <3>1. data' \in [Index -> Int] /\ writer' \in [offset : 49 .. buff_len, whole : BOOLEAN]
        BY <1>0, <2>1, StoredFacts
      <3>2. title' \in Nat
        BY <1>0, <2>1
      <3> QED BY <1>3, <3>1, <3>2 DEF Types
    <2>4. Closed' /\ Fixed' /\ \A j \in Entries : NameWritten(j)'
      BY <1>0, <1>1, <1>2, <2>1, OthersKept
    <2>5. PICK m : m = Kept(len)
      OBVIOUS
    <2>6. m \in 0 .. len /\ Written(o, m, text)'
      <3>1. o \in Nat
        BY <1>0
      <3>2. m \in Nat /\ m <= len /\ Written(o, m, text)'
        BY <1>b, <1>0, <2>1, <2>2, <2>5, <3>1, NewWritten
      <3> QED BY <1>0, <3>2
    <2>7. m > 0 \/ len = 0
      BY <1>b, <1>0, <2>2, <2>5 DEF Kept
    <2>8. TitleWritten'
      BY <1>0, <1>2, <2>1, <2>6, <2>7 DEF TitleWritten, unknown_desc
    <2> QED BY <2>3, <2>4, <2>8 DEF IInv
  <1> QED BY <1>4, <1>5

LEMMA InitNoTitleIInv ==
    ASSUME IInv, InitNoTitle
    PROVE  IInv'
  <1>0. /\ Types /\ Closed /\ Fixed
        /\ \A j \in Entries : NameWritten(j)
    BY DEF IInv
  <1>1. /\ title' = 0 /\ data' = data /\ writer' = writer /\ trait' = trait /\ texts' = texts
        /\ given' = [given EXCEPT ![0] = Unnamed]
    BY DEF InitNoTitle, unknown_desc
  <1>2. given'[0] = Unnamed /\ \A j \in Entries : given'[j] = given[j]
    BY <1>0, <1>1, NamesAssumption DEF Types
  <1>3. Types'
    BY <1>0, <1>1 DEF Types, Unnamed
  <1>4. Closed' /\ Fixed'
    BY <1>0, <1>1 DEF Closed, Fixed, Written, Holds
  <1>5. TitleWritten'
    BY <1>1, <1>2 DEF TitleWritten, unknown_desc
  <1>6. \A j \in Entries : NameWritten(j)'
    BY <1>0, <1>1, <1>2 DEF NameWritten, Written, Holds
  <1> QED BY <1>3, <1>4, <1>5, <1>6 DEF IInv

LEMMA StutterIInv == ASSUME IInv, UNCHANGED namesVars PROVE IInv'
  <1>1. /\ data' = data /\ writer' = writer /\ trait' = trait /\ title' = title
        /\ texts' = texts /\ given' = given
    BY DEF namesVars
  <1>2. Types' /\ Closed' /\ Fixed'
    BY <1>1 DEF IInv, Types, Closed, Fixed, Written, Holds
  <1>3. TitleWritten' /\ \A i \in Entries : NameWritten(i)'
    BY <1>1 DEF IInv, TitleWritten, NameWritten, Written, Holds, IsFull
  <1> QED BY <1>2, <1>3 DEF IInv

LEMMA Inductive == NamesSpec => []IInv
  <1>1. IInv /\ [NamesNext]_namesVars => IInv'
    BY RenameIInv, RenameReserveIInv, InitTitleIInv, InitNoTitleIInv, StutterIInv DEF NamesNext
  <1> QED BY <1>1, InitIInv, PTL DEF NamesSpec

----------------------------------------------------------------------------
(* Theorems                                                                *)

\* Every name in the buffer stays what Rename was given, cut only by the end of
\* the buffer, whatever is named after it.
THEOREM NamesStayKept == NamesSpec => []NamesKept
  <1>1. IInv => NamesKept
    BY DEF IInv, NameWritten, NamesKept, Written
  <1> QED BY <1>1, Inductive, PTL

\* The title stays what Init was given, or "unknown" if there was no room.
THEOREM TitleStaysKept == NamesSpec => []TitleKept
  <1>1. IInv => TitleKept
    BY DEF IInv, TitleWritten, TitleKept, Written, Fixed, unknown_desc
  <1> QED BY <1>1, Inductive, PTL

-----------------------------------------------------------------------------
(* Statistics: for all ticks and stamps.                                   *)

\* A smoothed value lies between the bounds of the two values it comes from.
LEMMA SmoothBetween ==
    ASSUME NEW s \in Int, NEW t \in Int, NEW lo \in Int, NEW hi \in Int,
           s = 0 \/ (lo <= s /\ s <= hi), lo <= t, t <= hi
    PROVE  Smooth(s, t) \in Int /\ lo <= Smooth(s, t) /\ Smooth(s, t) <= hi
  BY DEF Smooth

LEMMA QuotInt == ASSUME NEW a \in Int, NEW b \in Nat \ {0} PROVE Quot(a, b) \in Int
  BY DEF Quot

LEMMA QuotOne == ASSUME NEW a \in Int PROVE Quot(a, 1) = a
  BY DEF Quot

LEMMA CountedType ==
    ASSUME NEW s \in Tsc, NEW c \in Nat, NEW t \in Int
    PROVE  /\ Counted(s, c, t) \in Tsc
           /\ Counted(s, c, t).c = s.c + c
           /\ Counted(s, c, t).sum = s.sum + t
           /\ Counted(s, c, t).sm = s.sm
           /\ Counted(s, c, t).h_sm = s.h_sm /\ Counted(s, c, t).l_sm = s.l_sm
           /\ Counted(s, c, t).min_u = s.min_u /\ Counted(s, c, t).max_u = s.max_u
  <1> DEFINE r == Counted(s, c, t)
  <1>1. r = [s EXCEPT !.c = s.c + c, !.sum = s.sum + t, !.t_u = s.t_u + t]
    BY DEF Counted
  <1>2. s.c + c \in Nat /\ s.sum + t \in Int /\ s.t_u + t \in Int
    BY DEF Tsc
  <1> HIDE DEF r
  <1> QED BY <1>1, <1>2 DEF Tsc, r

LEMMA RangedType ==
    ASSUME NEW s \in Tsc, NEW t, NEW dis \in Int
    PROVE  LET n == Ranged(s, t, dis)
           IN  /\ n \in Tsc
               /\ n.c = s.c /\ n.sum = s.sum /\ n.sm = s.sm
               /\ n.h_sm = s.h_sm /\ n.l_sm = s.l_sm
               /\ n.min_u <= s.min_u /\ n.min_u <= dis
               /\ n.max_u >= s.max_u /\ n.max_u >= dis
               /\ n.min_u = s.min_u \/ n.min_u = dis
               /\ n.max_u = s.max_u \/ n.max_u = dis
  <1> DEFINE n == Ranged(s, t, dis)
             hi == IF s.max_u < dis THEN dis ELSE s.max_u
             lo == IF s.min_u < dis THEN s.min_u ELSE dis
  <1>1. n = [s EXCEPT !.max_u = hi, !.min_u = lo]
    BY DEF Ranged
  <1>2. /\ hi \in Int /\ hi >= s.max_u /\ hi >= dis /\ (hi = s.max_u \/ hi = dis)
        /\ lo \in Int /\ lo <= s.min_u /\ lo <= dis /\ (lo = s.min_u \/ lo = dis)
    BY DEF Tsc
  <1> HIDE DEF n, hi, lo
  <1> QED BY <1>1, <1>2 DEF Tsc, n

\* What a record of level normal or full does to c, sum, min_u and max_u, and
\* between what it keeps the smoothed values if a hit costs what is smoothed.
Recorded(s, r, c, t, dis) ==
    /\ r \in Tsc
    /\ r.c = s.c + c /\ r.sum = s.sum + t
    /\ r.min_u <= s.min_u /\ r.min_u <= dis
    /\ r.max_u >= s.max_u /\ r.max_u >= dis
    /\ r.sm = Smooth(s.sm, t)
    /\ r.h_sm = s.h_sm \/ r.h_sm = Smooth(s.h_sm, dis)
    /\ r.l_sm = s.l_sm \/ r.l_sm = Smooth(s.l_sm, dis)

LEMMA SmoothInt == ASSUME NEW s \in Int, NEW t \in Int PROVE Smooth(s, t) \in Int
  BY DEF Smooth

LEMMA AbsInt == ASSUME NEW a \in Int PROVE Abs(a) \in Nat
  BY DEF Abs

LEMMA NormalRecorded ==
    ASSUME NEW s \in Tsc, NEW t \in Int
    PROVE  Recorded(s, Normal(s, t), 1, t, t)
  <1> DEFINE n == Ranged(Counted(s, 1, t), t, t)
             sm == Smooth(s.sm, t)
  <1>1. s.sm \in Int
    BY DEF Tsc
  <1>2. sm \in Int
    BY <1>1, SmoothInt
  <1>3. /\ n \in Tsc
        /\ n.c = s.c + 1 /\ n.sum = s.sum + t
        /\ n.h_sm = s.h_sm /\ n.l_sm = s.l_sm
        /\ n.min_u <= s.min_u /\ n.min_u <= t
        /\ n.max_u >= s.max_u /\ n.max_u >= t
    BY CountedType, RangedType
  <1>4. n.dv + Abs(t - sm) \in Nat
    BY <1>2, <1>3, AbsInt DEF Tsc
  <1>5. Normal(s, t) = [n EXCEPT !.sm = sm, !.dv = n.dv + Abs(t - sm)]
    BY DEF Normal
  <1> HIDE DEF n, sm
  <1>6. /\ Normal(s, t) \in Tsc
        /\ Normal(s, t).c = n.c /\ Normal(s, t).sum = n.sum
        /\ Normal(s, t).min_u = n.min_u /\ Normal(s, t).max_u = n.max_u
        /\ Normal(s, t).h_sm = n.h_sm /\ Normal(s, t).l_sm = n.l_sm
        /\ Normal(s, t).sm = sm
    BY <1>2, <1>3, <1>4, <1>5 DEF Tsc
  <1> QED BY <1>3, <1>6 DEF Recorded, sm

LEMMA FullRecorded ==
    ASSUME NEW s \in Tsc, NEW t \in Int
    PROVE  Recorded(s, Full(s, t), 1, t, t)
  <1> DEFINE n == Ranged(Counted(s, 1, t), t, t)
             avg == Quot(n.sum, n.c)
             sm == Smooth(s.sm, t)
             h == IF t >= avg THEN Smooth(n.h_sm, t) ELSE n.h_sm
             l == IF t > avg THEN n.l_sm ELSE Smooth(n.l_sm, t)
             dv == n.dv + Abs(t - sm)
  <1>1. s.sm \in Int /\ s.h_sm \in Int /\ s.l_sm \in Int
    BY DEF Tsc
  <1>2. sm \in Int /\ Smooth(s.h_sm, t) \in Int /\ Smooth(s.l_sm, t) \in Int
    BY <1>1, SmoothInt
  <1>3. /\ n \in Tsc
        /\ n.c = s.c + 1 /\ n.sum = s.sum + t
        /\ n.h_sm = s.h_sm /\ n.l_sm = s.l_sm
        /\ n.min_u <= s.min_u /\ n.min_u <= t
        /\ n.max_u >= s.max_u /\ n.max_u >= t
    BY <1>1, CountedType, RangedType
  <1>4. avg \in Int
    <2>1. n.c \in Nat \ {0} /\ n.sum \in Int
      BY <1>3 DEF Tsc
    <2> QED BY <2>1, QuotInt
  <1> HIDE DEF n, sm, avg
  <1>5. dv \in Nat
    BY <1>1, <1>2, <1>3, <1>4, AbsInt DEF Tsc
  <1>6. /\ h \in Int /\ (h = n.h_sm \/ h = Smooth(n.h_sm, t))
        /\ l \in Int /\ (l = n.l_sm \/ l = Smooth(n.l_sm, t))
    BY <1>1, <1>2, <1>3, <1>4 DEF Tsc
  <1>7. Full(s, t) = [n EXCEPT !.sm = sm, !.dv = dv, !.h_sm = h, !.l_sm = l]
    BY DEF Full, n, sm, avg
  <1> HIDE DEF dv, h, l
  <1>8. /\ Full(s, t) \in Tsc
        /\ Full(s, t).c = n.c /\ Full(s, t).sum = n.sum
        /\ Full(s, t).min_u = n.min_u /\ Full(s, t).max_u = n.max_u
        /\ Full(s, t).h_sm = h /\ Full(s, t).l_sm = l
        /\ Full(s, t).sm = sm
    BY <1>2, <1>3, <1>5, <1>6, <1>7 DEF Tsc
  <1> QED BY <1>3, <1>6, <1>8 DEF Recorded, sm

LEMMA FullBatRecorded ==
    ASSUME NEW s \in Tsc, NEW c \in Nat \ {0}, NEW t \in Int
    PROVE  Recorded(s, FullBat(s, c, t), c, t, Quot(t, c))
  <1> DEFINE dis == Quot(t, c)
             n == Ranged(Counted(s, c, t), t, dis)
             avg == Quot(n.sum, n.c)
             sm == Smooth(s.sm, t)
             h == IF dis > avg THEN Smooth(n.h_sm, dis) ELSE n.h_sm
             l == IF dis > avg THEN n.l_sm ELSE Smooth(n.l_sm, dis)
             dv == n.dv + Abs(dis - sm)
  <1>1. s.sm \in Int /\ s.h_sm \in Int /\ s.l_sm \in Int /\ dis \in Int
    BY QuotInt DEF Tsc
  <1> HIDE DEF dis
  <1>2. sm \in Int /\ Smooth(s.h_sm, dis) \in Int /\ Smooth(s.l_sm, dis) \in Int
    BY <1>1, SmoothInt
  <1>3. /\ n \in Tsc
        /\ n.c = s.c + c /\ n.sum = s.sum + t
        /\ n.h_sm = s.h_sm /\ n.l_sm = s.l_sm
        /\ n.min_u <= s.min_u /\ n.min_u <= dis
        /\ n.max_u >= s.max_u /\ n.max_u >= dis
    BY <1>1, CountedType, RangedType
  <1>4. avg \in Int
    <2>1. n.c \in Nat \ {0} /\ n.sum \in Int
      BY <1>3 DEF Tsc
    <2> QED BY <2>1, QuotInt
  <1> HIDE DEF n, sm, avg
  <1>5. dv \in Nat
    BY <1>1, <1>2, <1>3, <1>4, AbsInt DEF Tsc
  <1>6. /\ h \in Int /\ (h = n.h_sm \/ h = Smooth(n.h_sm, dis))
        /\ l \in Int /\ (l = n.l_sm \/ l = Smooth(n.l_sm, dis))
    BY <1>1, <1>2, <1>3, <1>4 DEF Tsc
  <1>7. FullBat(s, c, t) = [n EXCEPT !.sm = sm, !.dv = dv, !.h_sm = h, !.l_sm = l]
    BY DEF FullBat, n, sm, avg, dis
  <1> HIDE DEF dv, h, l
  <1>8. /\ FullBat(s, c, t) \in Tsc
        /\ FullBat(s, c, t).c = n.c /\ FullBat(s, c, t).sum = n.sum
        /\ FullBat(s, c, t).min_u = n.min_u /\ FullBat(s, c, t).max_u = n.max_u
        /\ FullBat(s, c, t).h_sm = h /\ FullBat(s, c, t).l_sm = l
        /\ FullBat(s, c, t).sm = sm
    BY <1>2, <1>3, <1>5, <1>6, <1>7 DEF Tsc
  <1> QED BY <1>3, <1>6, <1>8 DEF Recorded, sm, dis

LEMMA NormalBatRecorded ==
    ASSUME NEW s \in Tsc, NEW c \in Nat \ {0}, NEW t \in Int
    PROVE  Recorded(s, NormalBat(s, c, t), c, t, Quot(t, c))
  <1> DEFINE dis == Quot(t, c)
             n == Ranged(Counted(s, c, t), t, dis)
             avg == Quot(n.sum, n.c)
             sm == Smooth(s.sm, t)
             dv == n.dv + Abs(dis - avg)
  <1>1. s.sm \in Int /\ s.h_sm \in Int /\ s.l_sm \in Int /\ dis \in Int
    BY QuotInt DEF Tsc
  <1> HIDE DEF dis
  <1>2. sm \in Int /\ Smooth(s.h_sm, dis) \in Int /\ Smooth(s.l_sm, dis) \in Int
    BY <1>1, SmoothInt
  <1>3. /\ n \in Tsc
        /\ n.c = s.c + c /\ n.sum = s.sum + t
        /\ n.sm = s.sm /\ n.h_sm = s.h_sm /\ n.l_sm = s.l_sm
        /\ n.min_u <= s.min_u /\ n.min_u <= dis
        /\ n.max_u >= s.max_u /\ n.max_u >= dis
    BY <1>1, CountedType, RangedType
  <1>4. avg \in Int
    <2>1. n.c \in Nat \ {0} /\ n.sum \in Int
      BY <1>3 DEF Tsc
    <2> QED BY <2>1, QuotInt
  <1> HIDE DEF n, sm, avg
  <1>5. dv \in Nat
    BY <1>1, <1>2, <1>3, <1>4, AbsInt DEF Tsc
  <1>7. NormalBat(s, c, t) = [n EXCEPT !.sm = sm, !.dv = dv]
    BY <1>3 DEF NormalBat, n, sm, avg, dis
  <1> HIDE DEF dv
  <1>8. /\ NormalBat(s, c, t) \in Tsc
        /\ NormalBat(s, c, t).c = n.c /\ NormalBat(s, c, t).sum = n.sum
        /\ NormalBat(s, c, t).min_u = n.min_u /\ NormalBat(s, c, t).max_u = n.max_u
        /\ NormalBat(s, c, t).h_sm = n.h_sm /\ NormalBat(s, c, t).l_sm = n.l_sm
        /\ NormalBat(s, c, t).sm = sm
    BY <1>2, <1>3, <1>5, <1>7 DEF Tsc
  <1> QED BY <1>3, <1>8 DEF Recorded, sm, dis

----------------------------------------------------------------------------
(* Types                                                                   *)

LEMMA NoCpuType == NoCpu \in Tsc
  BY CpuStatAssumption DEF NoCpu, Tsc

LEMMA FastType ==
    ASSUME NEW s \in Tsc, NEW c \in Nat \ {0}, NEW t \in Int
    PROVE  /\ Fast(s, c, t) \in Tsc
           /\ Fast(s, c, t).c = s.c + c /\ Fast(s, c, t).sum = s.sum + t
  <1> DEFINE n == Counted(s, c, t)
             q == Quot(t, c)
  <1>1. n \in Tsc /\ n.c = s.c + c /\ n.sum = s.sum + t /\ q \in Int
    BY CountedType, QuotInt
  <1>2. Fast(s, c, t) = [n EXCEPT !.sm = q]
    BY DEF Fast
  <1> HIDE DEF n, q
  <1> QED BY <1>1, <1>2 DEF Tsc

\* Whatever the level, a record adds its count and its ticks.
LEMMA WrapOneAdds ==
    ASSUME NEW s \in Tsc, NEW level \in Levels, NEW t \in Int
    PROVE  /\ Wrap(s, FALSE, level, 1, t) \in Tsc
           /\ Wrap(s, FALSE, level, 1, t).c = s.c + 1
           /\ Wrap(s, FALSE, level, 1, t).sum = s.sum + t
  <1>0. level \in {"normal", "fast", "full"}
    BY CpuStatAssumption
  <1>1. CASE level = "normal"
    BY <1>1, NormalRecorded DEF Wrap, Recorded
  <1>2. CASE level = "fast"
    <2>1. Wrap(s, FALSE, level, 1, t) = Fast(s, 1, t)
      BY <1>2 DEF Wrap
    <2>2. Fast(s, 1, t) \in Tsc /\ Fast(s, 1, t).c = s.c + 1 /\ Fast(s, 1, t).sum = s.sum + t
      BY FastType
    <2> QED BY <2>1, <2>2
  <1>3. CASE level = "full"
    BY <1>3, FullRecorded DEF Wrap, Recorded
  <1> QED BY <1>0, <1>1, <1>2, <1>3

LEMMA WrapBatAdds ==
    ASSUME NEW s \in Tsc, NEW level \in Levels, NEW c \in Nat \ {0}, NEW t \in Int
    PROVE  /\ Wrap(s, TRUE, level, c, t) \in Tsc
           /\ Wrap(s, TRUE, level, c, t).c = s.c + c
           /\ Wrap(s, TRUE, level, c, t).sum = s.sum + t
  <1>0. level \in {"normal", "fast", "full"}
    BY CpuStatAssumption
  <1>1. CASE level = "normal"
    BY <1>1, NormalBatRecorded DEF Wrap, Recorded
  <1>2. CASE level = "fast"
    BY <1>2, FastType DEF Wrap
  <1>3. CASE level = "full"
    BY <1>3, FullBatRecorded DEF Wrap, Recorded
  <1> QED BY <1>0, <1>1, <1>2, <1>3

LEMMA TimedAdds ==
    ASSUME TypeOK, NEW stamp \in Stamps
    PROVE  /\ Timed(stamp) \in Tsc
           /\ last = 0 => Timed(stamp) = cpu
           /\ last # 0 => /\ Recorded(cpu, Timed(stamp), 1, stamp - last, stamp - last)
                          /\ Timed(stamp).sum = cpu.sum + (stamp - last)
  <1>1. stamp - last \in Int
    BY CpuStatAssumption DEF TypeOK
  <1>2. Recorded(cpu, FullBat(cpu, 1, stamp - last), 1, stamp - last, stamp - last)
    BY <1>1, FullBatRecorded, QuotOne DEF TypeOK
  <1> QED BY <1>2 DEF Timed, Recorded, TypeOK

----------------------------------------------------------------------------
(* The timer: with TypeOK and an armed timer remembering its first stamp,  *)
(* the accounting of TimerExact is inductive.                              *)

TimerInv == TypeOK /\ TimerExact

\* For all ticks, counts, levels and stamps, an entry's total is what was
\* recorded directly plus the time between a timer's first and last stamp.
THEOREM TimerAccounts == Spec => [](TypeOK /\ TimerExact)
  <1>1. Init => TimerInv
    BY NoCpuType DEF Init, TimerInv, TypeOK, TimerExact, NoCpu
  <1>2. TimerInv /\ [Next]_vars => TimerInv'
    <2> SUFFICES ASSUME TimerInv, [Next]_vars
                 PROVE  TimerInv'
      OBVIOUS
    <2>0. TypeOK /\ TimerExact /\ cpu \in Tsc /\ direct.c \in Nat /\ direct.sum \in Int
          /\ cpu.sum \in Int /\ last \in Nat /\ first \in Nat
          /\ kinds \subseteq {"bat", "fast"}
      BY DEF TimerInv, TypeOK, Tsc
    <2>1. ASSUME NEW level \in Levels, NEW t \in Ticks, RecordOne(level, t)
          PROVE  TimerInv'
      <3>1. t \in Int
        BY CpuStatAssumption
      <3>2. cpu' = Wrap(cpu, FALSE, level, 1, t)
        BY <2>1 DEF RecordOne
      <3>3. cpu' \in Tsc /\ cpu'.sum = cpu.sum + t
        BY <2>0, <3>1, <3>2, WrapOneAdds
      <3>4. /\ direct' = [c |-> direct.c + 1, sum |-> direct.sum + t]
            /\ last' = last /\ first' = first
            /\ kinds' = kinds \union ({level} \intersect {"fast"})
        BY <2>1 DEF RecordOne
      <3> QED BY <2>0, <3>1, <3>3, <3>4 DEF TimerInv, TypeOK, TimerExact
    <2>2. ASSUME NEW level \in Levels, NEW b \in Batches, RecordBat(level, b[1], b[2])
          PROVE  TimerInv'
      <3>1. b[1] \in Nat \ {0} /\ b[2] \in Int
        BY CpuStatAssumption
      <3>2. cpu' = Wrap(cpu, TRUE, level, b[1], b[2])
        BY <2>2 DEF RecordBat
      <3>3. cpu' \in Tsc /\ cpu'.sum = cpu.sum + b[2]
        BY <2>0, <3>1, <3>2, WrapBatAdds
      <3>4. /\ direct' = [c |-> direct.c + b[1], sum |-> direct.sum + b[2]]
            /\ last' = last /\ first' = first
            /\ kinds' = kinds \union ({level, "bat"} \intersect {"fast", "bat"})
        BY <2>2 DEF RecordBat
      <3> QED BY <2>0, <3>1, <3>3, <3>4 DEF TimerInv, TypeOK, TimerExact
    <2>3. ASSUME NEW stamp \in Stamps, RecordTimer(stamp)
          PROVE  TimerInv'
      <3>1. stamp \in Nat \ {0}
        BY CpuStatAssumption
      <3>2. /\ cpu' \in Tsc
            /\ last = 0 => cpu' = cpu
            /\ last # 0 => cpu'.sum = cpu.sum + (stamp - last)
        BY <2>0, <2>3, TimedAdds DEF RecordTimer
      <3> QED BY <2>0, <2>3, <3>1, <3>2 DEF RecordTimer, TimerInv, TypeOK, TimerExact
    <2>4. CASE ResetNode
      BY <2>4, NoCpuType DEF ResetNode, TimerInv, TypeOK, TimerExact, NoCpu
    <2>5. CASE UNCHANGED vars
      BY <2>5 DEF vars, TimerInv, TypeOK, TimerExact
    <2> QED BY <2>1, <2>2, <2>3, <2>4, <2>5 DEF Next
  <1> QED BY <1>1, <1>2, PTL DEF Spec, TimerInv

----------------------------------------------------------------------------
(* Ranges.  Before the first record min_u is LLONG_MAX and nothing is      *)
(* smoothed; each record then widens the range by its own value first.     *)

\* An entry without records is as ResetCpu left it.
Fresh ==
    cpu.c = 0 => /\ cpu.sm = 0 /\ cpu.h_sm = 0 /\ cpu.l_sm = 0 /\ cpu.sum = 0
                 /\ cpu.min_u = LLONG_MAX /\ cpu.max_u = 0

RInv == TypeOK /\ Fresh /\ SmoothInRange

\* The records that SmoothInRange and AvgInRange say nothing about keep the rest.
LEMMA AddingKeepsFresh ==
    ASSUME cpu \in Tsc, NEW c \in Nat \ {0}, cpu' \in Tsc, cpu'.c = cpu.c + c
    PROVE  Fresh'
  <1>1. cpu'.c # 0
    BY DEF Tsc
  <1> QED BY <1>1 DEF Fresh

LEMMA RecordedInRange ==
    ASSUME NEW s \in Tsc, NEW r, NEW t \in Int, Recorded(s, r, 1, t, t),
           s.c = 0 => s.sm = 0 /\ s.h_sm = 0 /\ s.l_sm = 0,
           s.c > 0 => /\ s.min_u <= s.sm /\ s.sm <= s.max_u
                      /\ s.h_sm = 0 \/ (s.min_u <= s.h_sm /\ s.h_sm <= s.max_u)
                      /\ s.l_sm = 0 \/ (s.min_u <= s.l_sm /\ s.l_sm <= s.max_u)
    PROVE  /\ r.min_u <= r.sm /\ r.sm <= r.max_u
           /\ r.h_sm = 0 \/ (r.min_u <= r.h_sm /\ r.h_sm <= r.max_u)
           /\ r.l_sm = 0 \/ (r.min_u <= r.l_sm /\ r.l_sm <= r.max_u)
           /\ r.c > 0
  <1> DEFINE lo == r.min_u
             hi == r.max_u
  <1>1. /\ s.c \in Nat /\ s.sm \in Int /\ s.h_sm \in Int /\ s.l_sm \in Int
        /\ s.min_u \in Int /\ s.max_u \in Int
        /\ lo \in Int /\ hi \in Int
        /\ lo <= s.min_u /\ lo <= t /\ s.max_u <= hi /\ t <= hi
        /\ r.c = s.c + 1
    BY DEF Recorded, Tsc
  <1>2. \A x \in {s.sm, s.h_sm, s.l_sm} :
           x \in Int /\ (x = 0 \/ (lo <= x /\ x <= hi))
    BY <1>1
  <1> HIDE DEF lo, hi
  <1>3. \A x \in {s.sm, s.h_sm, s.l_sm} : lo <= Smooth(x, t) /\ Smooth(x, t) <= hi
    BY <1>1, <1>2, SmoothBetween
  <1>4. /\ r.sm = Smooth(s.sm, t)
        /\ r.h_sm = s.h_sm \/ r.h_sm = Smooth(s.h_sm, t)
        /\ r.l_sm = s.l_sm \/ r.l_sm = Smooth(s.l_sm, t)
    BY DEF Recorded
  <1>5. lo <= r.sm /\ r.sm <= hi
    BY <1>3, <1>4
  <1>6. r.h_sm = 0 \/ (lo <= r.h_sm /\ r.h_sm <= hi)
    BY <1>2, <1>3, <1>4
  <1>7. r.l_sm = 0 \/ (lo <= r.l_sm /\ r.l_sm <= hi)
    BY <1>2, <1>3, <1>4
  <1>8. r.c > 0
    BY <1>1
  <1> QED BY <1>5, <1>6, <1>7, <1>8 DEF lo, hi

\* For all ticks, counts and stamps: while an entry has only single records of
\* level normal or full and timers, sm and its water levels lie between min and
\* max.
THEOREM SmoothedStaysInRange == Spec => []SmoothInRange
  <1>1. Init => RInv
    BY NoCpuType DEF Init, RInv, TypeOK, Fresh, SmoothInRange, NoCpu
  <1>2. RInv /\ [Next]_vars => RInv'
    <2> SUFFICES ASSUME RInv, [Next]_vars
                 PROVE  RInv'
      OBVIOUS
    <2>0. /\ TypeOK /\ cpu \in Tsc /\ direct.c \in Nat /\ direct.sum \in Int
          /\ last \in Nat /\ first \in Nat
          /\ kinds \subseteq {"bat", "fast"}
      BY DEF RInv, TypeOK
    <2>a. ASSUME NEW t \in Int, NEW r, Recorded(cpu, r, 1, t, t), cpu' = r, kinds = {}
          PROVE  cpu' \in Tsc /\ Fresh' /\ SmoothInRange'
      <3>1. r \in Tsc
        BY <2>a DEF Recorded
      <3>2. /\ r.min_u <= r.sm /\ r.sm <= r.max_u
            /\ r.h_sm = 0 \/ (r.min_u <= r.h_sm /\ r.h_sm <= r.max_u)
            /\ r.l_sm = 0 \/ (r.min_u <= r.l_sm /\ r.l_sm <= r.max_u)
            /\ r.c > 0
        <4>1. cpu.c = 0 => cpu.sm = 0 /\ cpu.h_sm = 0 /\ cpu.l_sm = 0
          BY DEF RInv, Fresh
        <4>2. cpu.c > 0 =>
                /\ cpu.min_u <= cpu.sm /\ cpu.sm <= cpu.max_u
                /\ cpu.h_sm = 0 \/ (cpu.min_u <= cpu.h_sm /\ cpu.h_sm <= cpu.max_u)
                /\ cpu.l_sm = 0 \/ (cpu.min_u <= cpu.l_sm /\ cpu.l_sm <= cpu.max_u)
          BY <2>a DEF RInv, SmoothInRange, Within
        <4> QED BY <2>0, <2>a, <4>1, <4>2, RecordedInRange
      <3>3. ~(r.c = 0)
        BY <3>1, <3>2 DEF Tsc
      <3> QED BY <2>a, <3>1, <3>2, <3>3 DEF Fresh, SmoothInRange, Within
    <2>1. ASSUME NEW level \in Levels, NEW t \in Ticks, RecordOne(level, t)
          PROVE  RInv'
      <3>1. t \in Int /\ level \in {"normal", "fast", "full"}
        BY CpuStatAssumption
      <3>2. cpu' = Wrap(cpu, FALSE, level, 1, t)
        BY <2>1 DEF RecordOne
      <3>3. cpu' \in Tsc /\ cpu'.c = cpu.c + 1
        BY <2>0, <3>1, <3>2, WrapOneAdds
      <3>4. /\ direct' = [c |-> direct.c + 1, sum |-> direct.sum + t]
            /\ last' = last /\ first' = first
            /\ kinds' = kinds \union ({level} \intersect {"fast"})
        BY <2>1 DEF RecordOne
      <3>5. Fresh'
        BY <2>0, <3>3, AddingKeepsFresh
      <3>6. SmoothInRange'
        <4>1. CASE kinds # {} \/ level = "fast"
          BY <3>4, <4>1 DEF SmoothInRange
        <4>2. CASE level # "fast" /\ kinds = {}
          <5>1. Recorded(cpu, cpu', 1, t, t)
            <6>1. CASE level = "normal"
              BY <2>0, <3>1, <3>2, <6>1, NormalRecorded DEF Wrap
            <6>2. CASE level = "full"
              BY <2>0, <3>1, <3>2, <6>2, FullRecorded DEF Wrap
            <6> QED BY <3>1, <4>2, <6>1, <6>2
          <5> QED BY <2>a, <3>1, <4>2, <5>1
        <4> QED BY <4>1, <4>2
      <3>7. direct' \in [c : Nat, sum : Int] /\ last' \in Nat /\ first' \in Nat
            /\ kinds' \subseteq {"bat", "fast"}
        BY <2>0, <3>1, <3>4
      <3> QED BY <3>3, <3>5, <3>6, <3>7 DEF RInv, TypeOK
    <2>b. ASSUME NEW level \in Levels, NEW b \in Batches, RecordBat(level, b[1], b[2])
          PROVE  RInv'
      <3> DEFINE c == b[1]
                 t == b[2]
      <3>1. c \in Nat \ {0} /\ t \in Int
        BY CpuStatAssumption
      <3>2. /\ cpu' = Wrap(cpu, TRUE, level, c, t)
            /\ direct' = [c |-> direct.c + c, sum |-> direct.sum + t]
            /\ last' = last /\ first' = first
            /\ kinds' = kinds \union ({level, "bat"} \intersect {"fast", "bat"})
        BY <2>b DEF RecordBat
      <3> HIDE DEF c, t
      <3>3. cpu' \in Tsc /\ cpu'.c = cpu.c + c
        BY <2>0, <3>1, <3>2, WrapBatAdds
      <3>4. Fresh'
        BY <2>0, <3>1, <3>3, AddingKeepsFresh
      <3>5. SmoothInRange'
        BY <3>2 DEF SmoothInRange
      <3>6. direct' \in [c : Nat, sum : Int] /\ last' \in Nat /\ first' \in Nat
            /\ kinds' \subseteq {"bat", "fast"}
        BY <2>0, <3>1, <3>2
      <3> QED BY <3>3, <3>4, <3>5, <3>6 DEF RInv, TypeOK
    <2>2. ASSUME NEW stamp \in Stamps, RecordTimer(stamp)
          PROVE  RInv'
      <3>1. stamp \in Nat \ {0} /\ stamp - last \in Int
        BY <2>0, CpuStatAssumption
      <3>2. cpu' = Timed(stamp) /\ last' = stamp /\ direct' = direct
            /\ first' \in {stamp, first} /\ kinds' = kinds
        BY <2>2 DEF RecordTimer
      <3>3. cpu' \in Tsc /\ Fresh' /\ SmoothInRange'
        <4>1. CASE last = 0
          <5>1. cpu' = cpu
            BY <2>0, <3>2, <4>1, TimedAdds
          <5> QED BY <2>0, <3>2, <5>1 DEF RInv, Fresh, SmoothInRange, Within
        <4>2. CASE last # 0
          <5>1. Recorded(cpu, cpu', 1, stamp - last, stamp - last)
            BY <2>0, <3>2, <4>2, TimedAdds
          <5>2. cpu' \in Tsc /\ cpu'.c = cpu.c + 1
            BY <5>1 DEF Recorded
          <5>3. Fresh'
            BY <2>0, <5>2, AddingKeepsFresh
          <5>4. CASE kinds = {}
            BY <2>a, <3>1, <5>1, <5>4
          <5>5. CASE ~(kinds = {})
            BY <3>2, <5>2, <5>3, <5>5 DEF SmoothInRange
          <5> QED BY <5>4, <5>5
        <4> QED BY <4>1, <4>2
      <3> QED BY <2>0, <3>1, <3>2, <3>3 DEF RInv, TypeOK
    <2>3. CASE ResetNode
      BY <2>3, NoCpuType DEF ResetNode, RInv, TypeOK, Fresh, SmoothInRange, NoCpu
    <2>4. CASE UNCHANGED vars
      BY <2>4 DEF vars, RInv, TypeOK, Fresh, SmoothInRange, Within
    <2> QED BY <2>1, <2>b, <2>2, <2>3, <2>4 DEF Next
  <1>3. RInv => SmoothInRange
    BY DEF RInv
  <1> QED BY <1>1, <1>2, <1>3, PTL DEF Spec

LEMMA QuotBounds ==
    ASSUME NEW t \in Nat, NEW c \in Nat \ {0}
    PROVE  Quot(t, c) * c <= t /\ t < (Quot(t, c) + 1) * c
  <1> DEFINE q == t \div c
  <1>1. q \in Int /\ t = c * q + (t % c) /\ t % c \in 0 .. c - 1
    OBVIOUS
  <1>2. Quot(t, c) = q
    BY DEF Quot
  <1> QED BY <1>1, <1>2

LEMMA TimesMonotone ==
    ASSUME NEW a \in Int, NEW b \in Int, NEW c \in Nat, a <= b
    PROVE  a * c <= b * c
  OBVIOUS

\* Merging an average between bounds with c hits between bounds gives an
\* average between the wider bounds.
LEMMA AverageStep ==
    ASSUME NEW s \in Tsc, NEW r, NEW c \in Nat \ {0}, NEW t \in Int, NEW dis \in Int,
           Recorded(s, r, c, t, dis), dis * c <= t, t < (dis + 1) * c,
           s.c = 0 => s.sum = 0,
           s.c > 0 => s.min_u * s.c <= s.sum /\ s.sum < (s.max_u + 1) * s.c
    PROVE  r.min_u * r.c <= r.sum /\ r.sum < (r.max_u + 1) * r.c /\ r.c > 0
  <1> DEFINE lo == r.min_u
             hi == r.max_u + 1
             n  == s.c
  <1>1. /\ n \in Nat /\ s.sum \in Int /\ s.min_u \in Int /\ s.max_u \in Int
        /\ lo \in Int /\ hi \in Int
        /\ lo <= s.min_u /\ lo <= dis /\ s.max_u + 1 <= hi /\ dis + 1 <= hi
        /\ r.c = n + c /\ r.sum = s.sum + t
    BY DEF Recorded, Tsc
  <1> HIDE DEF lo, hi, n
  <1>2. lo * c <= dis * c /\ (dis + 1) * c <= hi * c
    BY <1>1, TimesMonotone
  <1>3. lo * n <= s.min_u * n /\ (s.max_u + 1) * n <= hi * n
    BY <1>1, TimesMonotone
  <1>4. lo * (n + c) = lo * n + lo * c /\ hi * (n + c) = hi * n + hi * c
    BY <1>1
  <1>5. lo * n <= s.sum /\ s.sum <= hi * n
    <2>1. CASE n = 0
      BY <1>1, <2>1 DEF n
    <2>2. CASE n > 0
      BY <1>1, <1>3, <2>2 DEF n
    <2> QED BY <1>1, <2>1, <2>2
  <1>6. lo * n \in Int /\ lo * c \in Int /\ hi * n \in Int /\ hi * c \in Int
        /\ dis * c \in Int /\ (dis + 1) * c \in Int
    BY <1>1
  <1>7. lo * n + lo * c <= s.sum + t /\ s.sum + t < hi * n + hi * c
    BY <1>1, <1>2, <1>5, <1>6
  <1>8. lo * (n + c) <= r.sum /\ r.sum < hi * (n + c) /\ n + c > 0
    BY <1>1, <1>4, <1>7
  <1> QED BY <1>1, <1>8 DEF lo, hi

AInv == TypeOK /\ Fresh /\ AvgInRange

\* With records of level normal or full, single or counted, and with timers,
\* the average the report prints lies between the min and the max it prints.
THEOREM AverageStaysInRange == Spec => []AvgInRange
  <1>1. Init => AInv
    BY NoCpuType DEF Init, AInv, TypeOK, Fresh, AvgInRange, NoCpu
  <1>2. AInv /\ [Next]_vars => AInv'
    <2> SUFFICES ASSUME AInv, [Next]_vars
                 PROVE  AInv'
      OBVIOUS
    <2>0. /\ TypeOK /\ cpu \in Tsc /\ direct.c \in Nat /\ direct.sum \in Int
          /\ last \in Nat /\ first \in Nat
          /\ kinds \subseteq {"bat", "fast"}
      BY DEF AInv, TypeOK
    <2>a. ASSUME NEW c \in Nat \ {0}, NEW t \in Int, NEW dis \in Int, NEW r,
                 Recorded(cpu, r, c, t, dis), dis * c <= t, t < (dis + 1) * c, cpu' = r,
                 "fast" \notin kinds
          PROVE  cpu' \in Tsc /\ Fresh' /\ AvgInRange'
      <3>1. r \in Tsc
        BY <2>a DEF Recorded
      <3>2. r.min_u * r.c <= r.sum /\ r.sum < (r.max_u + 1) * r.c /\ r.c > 0
        <4>1. cpu.c = 0 => cpu.sum = 0
          BY DEF AInv, Fresh
        <4>2. cpu.c > 0 => cpu.min_u * cpu.c <= cpu.sum
                           /\ cpu.sum < (cpu.max_u + 1) * cpu.c
          BY <2>a DEF AInv, AvgInRange
        <4> QED BY <2>0, <2>a, <4>1, <4>2, AverageStep
      <3>3. ~(r.c = 0)
        BY <3>1, <3>2 DEF Tsc
      <3> QED BY <2>a, <3>1, <3>2, <3>3 DEF Fresh, AvgInRange
    <2>1. ASSUME NEW level \in Levels, NEW t \in Ticks, RecordOne(level, t)
          PROVE  AInv'
      <3>1. t \in Int /\ level \in {"normal", "fast", "full"} /\ t * 1 <= t /\ t < (t + 1) * 1
        BY CpuStatAssumption
      <3>2. cpu' = Wrap(cpu, FALSE, level, 1, t)
        BY <2>1 DEF RecordOne
      <3>3. cpu' \in Tsc /\ cpu'.c = cpu.c + 1
        BY <2>0, <3>1, <3>2, WrapOneAdds
      <3>4. /\ direct' = [c |-> direct.c + 1, sum |-> direct.sum + t]
            /\ last' = last /\ first' = first
            /\ kinds' = kinds \union ({level} \intersect {"fast"})
        BY <2>1 DEF RecordOne
      <3>5. Fresh'
        BY <2>0, <3>3, AddingKeepsFresh
      <3>6. AvgInRange'
        <4>1. CASE "fast" \in kinds \/ level = "fast"
          BY <3>4, <4>1 DEF AvgInRange
        <4>2. CASE level # "fast" /\ "fast" \notin kinds
          <5>1. Recorded(cpu, cpu', 1, t, t)
            <6>1. CASE level = "normal"
              BY <2>0, <3>1, <3>2, <6>1, NormalRecorded DEF Wrap
            <6>2. CASE level = "full"
              BY <2>0, <3>1, <3>2, <6>2, FullRecorded DEF Wrap
            <6> QED BY <3>1, <4>2, <6>1, <6>2
          <5> QED BY <2>a, <3>1, <4>2, <5>1
        <4> QED BY <4>1, <4>2
      <3>7. direct' \in [c : Nat, sum : Int] /\ last' \in Nat /\ first' \in Nat
            /\ kinds' \subseteq {"bat", "fast"}
        BY <2>0, <3>1, <3>4
      <3> QED BY <3>3, <3>5, <3>6, <3>7 DEF AInv, TypeOK
    <2>2. ASSUME NEW level \in Levels, NEW b \in Batches, RecordBat(level, b[1], b[2])
          PROVE  AInv'
      <3> DEFINE c == b[1]
                 t == b[2]
      <3>1. /\ c \in Nat \ {0} /\ t \in Nat /\ t \in Int
            /\ level \in {"normal", "fast", "full"}
        BY CpuStatAssumption
      <3>2. /\ cpu' = Wrap(cpu, TRUE, level, c, t)
            /\ direct' = [c |-> direct.c + c, sum |-> direct.sum + t]
            /\ last' = last /\ first' = first
            /\ kinds' = kinds \union ({level, "bat"} \intersect {"fast", "bat"})
        BY <2>2 DEF RecordBat
      <3> HIDE DEF c, t
      <3>3. cpu' \in Tsc /\ cpu'.c = cpu.c + c
        BY <2>0, <3>1, <3>2, WrapBatAdds
      <3>4. Fresh'
        BY <2>0, <3>1, <3>3, AddingKeepsFresh
      <3>5. AvgInRange'
        <4>1. CASE "fast" \in kinds \/ level = "fast"
          BY <3>2, <4>1 DEF AvgInRange
        <4>2. CASE level # "fast" /\ "fast" \notin kinds
          <5>1. Recorded(cpu, cpu', c, t, Quot(t, c))
            <6>1. CASE level = "normal"
              BY <2>0, <3>1, <3>2, <6>1, NormalBatRecorded DEF Wrap
            <6>2. CASE level = "full"
              BY <2>0, <3>1, <3>2, <6>2, FullBatRecorded DEF Wrap
            <6> QED BY <3>1, <4>2, <6>1, <6>2
          <5>2. Quot(t, c) \in Int /\ Quot(t, c) * c <= t /\ t < (Quot(t, c) + 1) * c
            BY <3>1, QuotInt, QuotBounds
          <5> QED BY <2>a, <3>1, <4>2, <5>1, <5>2
        <4> QED BY <4>1, <4>2
      <3>6. direct' \in [c : Nat, sum : Int] /\ last' \in Nat /\ first' \in Nat
            /\ kinds' \subseteq {"bat", "fast"}
        BY <2>0, <3>1, <3>2
      <3> QED BY <3>3, <3>4, <3>5, <3>6 DEF AInv, TypeOK
    <2>3. ASSUME NEW stamp \in Stamps, RecordTimer(stamp)
          PROVE  AInv'
      <3> DEFINE d == stamp - last
      <3>1. stamp \in Nat \ {0} /\ d \in Int /\ d * 1 <= d /\ d < (d + 1) * 1
        BY <2>0, CpuStatAssumption
      <3>2. cpu' = Timed(stamp) /\ last' = stamp /\ direct' = direct
            /\ first' \in {stamp, first} /\ kinds' = kinds
        BY <2>3 DEF RecordTimer
      <3>3. cpu' \in Tsc /\ Fresh' /\ AvgInRange'
        <4>1. CASE last = 0
          <5>1. cpu' = cpu
            BY <2>0, <3>2, <4>1, TimedAdds
          <5> QED BY <2>0, <3>2, <5>1 DEF AInv, Fresh, AvgInRange
        <4>2. CASE last # 0
          <5>1. Recorded(cpu, cpu', 1, d, d)
            BY <2>0, <3>2, <4>2, TimedAdds
          <5>2. cpu' \in Tsc /\ cpu'.c = cpu.c + 1
            BY <5>1 DEF Recorded
          <5>3. Fresh'
            BY <2>0, <5>2, AddingKeepsFresh
          <5>4. CASE "fast" \notin kinds
            BY <2>a, <3>1, <5>1, <5>4
          <5>5. CASE ~("fast" \notin kinds)
            BY <3>2, <5>2, <5>3, <5>5 DEF AvgInRange
          <5> QED BY <5>4, <5>5
        <4> QED BY <4>1, <4>2
      <3> QED BY <2>0, <3>1, <3>2, <3>3 DEF AInv, TypeOK
    <2>4. CASE ResetNode
      BY <2>4, NoCpuType DEF ResetNode, AInv, TypeOK, Fresh, AvgInRange, NoCpu
    <2>5. CASE UNCHANGED vars
      BY <2>5 DEF vars, AInv, TypeOK, Fresh, AvgInRange
    <2> QED BY <2>1, <2>2, <2>3, <2>4, <2>5 DEF Next
  <1>3. AInv => AvgInRange
    BY DEF AInv
  <1> QED BY <1>1, <1>2, <1>3, PTL DEF Spec

----------------------------------------------------------------------------
(* Lines: the line writer never leaves its buffer, for every buffer length *)
(* and every length of the values that are pushed; and a buffer of the     *)
(* length LineFits asks for cuts no line.                                  *)

\* Writers whose cursor is in the buffer.
Good == [offset : 0 .. buff_len, whole : BOOLEAN]

\* What each kind of push does to such a writer: it stays one.  A number and
\* what is made of numbers moves the cursor by less than the room it asked for.
LEMMA WroteGood ==
    ASSUME NEW w \in Good, NEW n \in Nat, w.offset + n <= buff_len
    PROVE  Wrote(w, n) \in Good /\ Cut(w, n) \in Good
           /\ Wrote(w, n).offset = w.offset + n /\ Cut(w, n).offset = w.offset + n
  BY BuffLenAssumption DEF Good, Wrote, Cut

LEMMA DroppedGood ==
    ASSUME NEW w \in Good
    PROVE  Dropped(w) \in Good /\ Dropped(w).offset = w.offset
  BY BuffLenAssumption DEF Good, Dropped, Cut

LEMMA PushCharGood ==
    ASSUME NEW w \in Good, NEW repeat \in Nat
    PROVE  /\ PushChar(w, repeat) \in Good
           /\ PushChar(w, repeat).offset <= w.offset + repeat
  <1>1. Room(w) \in Nat /\ w.offset + Room(w) = buff_len
    BY BuffLenAssumption DEF Good, Room
  <1>2. CASE repeat <= Room(w)
    BY <1>1, <1>2, WroteGood, BuffLenAssumption DEF Good, PushChar
  <1>3. CASE ~(repeat <= Room(w))
    BY <1>1, <1>3, WroteGood, BuffLenAssumption DEF Good, PushChar
  <1> QED BY <1>2, <1>3

LEMMA PushStringGood ==
    ASSUME NEW w \in Good, NEW size \in Nat
    PROVE  PushString(w, size) \in Good
  <1>1. Room(w) \in Nat /\ w.offset + Room(w) = buff_len
    BY BuffLenAssumption DEF Good, Room
  <1>2. CASE Room(w) >= size
    BY <1>1, <1>2, WroteGood, BuffLenAssumption DEF Good, PushString
  <1>3. CASE ~(Room(w) >= size)
    BY <1>1, <1>3, WroteGood, BuffLenAssumption DEF Good, PushString
  <1> QED BY <1>2, <1>3

LEMMA PushRunGood ==
    ASSUME NEW w \in Good, NEW count \in Nat
    PROVE  PushRun(w, count) \in Good
  BY WroteGood, DroppedGood, BuffLenAssumption DEF Good, PushRun, lut_size

LEMMA PushNumberGood ==
    ASSUME NEW w \in Good, NEW d \in 1 .. 20, NEW wide \in 0 .. kU64MaxCharLen
    PROVE  /\ PushNumber(w, d, wide) \in Good
           /\ PushNumber(w, d, wide).offset <= w.offset + (IF d < wide THEN wide ELSE d)
  BY WroteGood, DroppedGood, BuffLenAssumption
     DEF Good, PushNumber, HasRoom, kU64MaxCharLen

LEMMA PushHumanCountGood ==
    ASSUME NEW w \in Good, NEW d \in 1 .. 20, NEW groups \in 1 .. 3
    PROVE  PushHumanCount(w, d, groups) \in Good
  <1> DEFINE leading == PushNumber(w, d, 0)
             second  == PushNumber(PushChar(leading, 1), 3, 3)
             third   == PushNumber(PushChar(second, 1), 3, 3)
  <1>1. leading \in Good /\ 3 \in 0 .. kU64MaxCharLen
    BY PushNumberGood DEF kU64MaxCharLen
  <1>2. second \in Good
    BY <1>1, PushCharGood, PushNumberGood
  <1>3. third \in Good
    BY <1>1, <1>2, PushCharGood, PushNumberGood
  <1> QED BY <1>1, <1>2, <1>3, DroppedGood DEF PushHumanCount

\* The three bytes that PushHumanTime writes unchecked are in the room it
\* asked for at its head.
LEMMA PushHumanTimeGood ==
    ASSUME NEW w \in Good, NEW neg \in BOOLEAN, NEW d \in 1 .. 10
    PROVE  PushHumanTime(w, neg, d) \in Good
  <1>1. CASE ~HasRoom(w) \/ neg
    BY <1>1, DroppedGood, PushStringGood DEF PushHumanTime
  <1>2. CASE HasRoom(w) /\ ~neg
    <2> DEFINE a == PushNumber(w, d, 0)
               b == Wrote(a, 1)
               c == PushNumber(b, 3, 3)
    <2>1. a \in Good /\ a.offset <= w.offset + 10
      <3>1. d \in 1 .. 20 /\ 0 \in 0 .. kU64MaxCharLen /\ ~(d < 0)
        BY DEF kU64MaxCharLen
      <3>2. a \in Good /\ a.offset <= w.offset + d
        BY <3>1, PushNumberGood
      <3> QED BY <3>2 DEF Good
    <2>2. b \in Good /\ b.offset <= w.offset + 11
      BY <1>2, <2>1, WroteGood, BuffLenAssumption DEF HasRoom, kU64MaxCharLen, Good
    <2>3. c \in Good /\ c.offset <= w.offset + 14
      <3>1. 3 \in 0 .. kU64MaxCharLen /\ 3 \in 1 .. 20 /\ ~(3 < 3)
        BY DEF kU64MaxCharLen
      <3>2. c \in Good /\ c.offset <= b.offset + 3
        BY <2>2, <3>1, PushNumberGood
      <3> QED BY <2>2, <3>2 DEF Good
    <2>4. Wrote(c, 2) \in Good
      BY <1>2, <2>3, WroteGood, BuffLenAssumption DEF HasRoom, kU64MaxCharLen, Good
    <2>5. PushSigned(w, FALSE, d, 0) = a
      BY <1>2 DEF PushSigned
    <2> QED BY <1>2, <2>4, <2>5 DEF PushHumanTime
  <1> QED BY <1>1, <1>2

LEMMA PushHumanMemGood ==
    ASSUME NEW w \in Good, NEW d \in 1 .. 20, NEW frac \in BOOLEAN
    PROVE  PushHumanMem(w, d, frac) \in Good
  <1> DEFINE a == PushNumber(w, d, 0)
             b == PushNumber(PushChar(a, 1), 3, 3)
  <1>1. a \in Good /\ 3 \in 0 .. kU64MaxCharLen
    BY PushNumberGood DEF kU64MaxCharLen
  <1>2. b \in Good
    BY <1>1, PushCharGood, PushNumberGood
  <1> QED BY <1>1, <1>2, DroppedGood, PushCharGood DEF PushHumanMem

LEMMA PushDateGood ==
    ASSUME NEW w \in Good
    PROVE  PushDate(w) \in Good
  <1> DEFINE N(x, n) == PushNumber(x, n, n)
             CN(x, n) == PushNumber(PushChar(x, 1), n, n)
  <1>1. ASSUME NEW x \in Good, NEW n \in {2, 3, 4}
        PROVE  N(x, n) \in Good /\ CN(x, n) \in Good
    <2>1. n \in 1 .. 20 /\ n \in 0 .. kU64MaxCharLen
      BY DEF kU64MaxCharLen
    <2>2. PushChar(x, 1) \in Good
      BY PushCharGood
    <2> QED BY <2>1, <2>2, PushNumberGood
  <1> DEFINE day  == N(N(CN(w, 4), 2), 2)
             min  == CN(CN(day, 2), 2)
             full == CN(CN(min, 2), 3)
  <1> HIDE DEF N, CN
  <1>2. CN(w, 4) \in Good
    BY <1>1
  <1>3. N(CN(w, 4), 2) \in Good
    BY <1>1, <1>2
  <1>4. day \in Good
    BY <1>1, <1>3
  <1>5. CN(day, 2) \in Good
    BY <1>1, <1>4
  <1>6. min \in Good
    BY <1>1, <1>5
  <1>7. CN(min, 2) \in Good
    BY <1>1, <1>6
  <1>8. full \in Good
    BY <1>1, <1>7
  <1> QED BY <1>8, PushCharGood DEF PushDate, N, CN


----------------------------------------------------------------------------
(* The calls push fields                                                   *)

LEMMA FieldsAreFields ==
    /\ \A n \in Nat : Str(n) \in Field /\ Chr(n) \in Field /\ Run(n) \in Field
    /\ Num(3) \in Field
    /\ Count \in Field /\ Time \in Field /\ Mem \in Field /\ Date \in Field
    /\ Out \in Field
  BY DEF Field, Op, Str, Chr, Run, Num, Count, Time, Mem, Date, Out, kU64MaxCharLen

LEMMA HeadFields ==
    ASSUME NEW name_len \in Nat, NEW depth \in Nat, NEW kind \in Nat
    PROVE  EntryHead(name_len, depth, kind) \in Seq(Field)
  <1>1. Padding(name_len, depth) \in Nat /\ 2 * depth \in Nat
    BY LinesAssumption DEF Padding
  <1> QED BY <1>1, FieldsAreFields DEF EntryHead

LEMMA LineFields ==
    ASSUME NEW name_len \in Nat, NEW depth \in Nat, NEW parts
    PROVE  /\ CpuLine(name_len, depth, parts) \in Seq(Field)
           /\ MemLine(name_len, depth) \in Seq(Field)
           /\ VmLine(name_len, depth) \in Seq(Field)
           /\ UserLine(name_len, depth) \in Seq(Field)
           /\ DeepLine(depth) \in Seq(Field)
  <1>1. EntryHead(name_len, depth, 9) \in Seq(Field)
        /\ EntryHead(name_len, depth, 10) \in Seq(Field)
    BY HeadFields
  <1>2. CpuLine(name_len, depth, parts) \in Seq(Field)
    <2>1. <<Count, Str(3), Time, Str(2), Time>> \in Seq(Field)
      BY FieldsAreFields
    <2>2. \A n \in Nat : <<Str(n), Time, Str(2), Time>> \in Seq(Field)
      BY FieldsAreFields
    <2>3. <<Str(4), Out>> \in Seq(Field) /\ << >> \in Seq(Field)
      BY FieldsAreFields
    <2> QED BY <1>1, <2>1, <2>2, <2>3 DEF CpuLine
  <1>3. MemLine(name_len, depth) \in Seq(Field)
    BY <1>1, FieldsAreFields DEF MemLine
  <1>4. VmLine(name_len, depth) \in Seq(Field)
    BY <1>1, FieldsAreFields DEF VmLine
  <1>5. UserLine(name_len, depth) \in Seq(Field)
    BY <1>1, FieldsAreFields DEF UserLine
  <1>6. DeepLine(depth) \in Seq(Field)
    BY FieldsAreFields DEF DeepLine
  <1> QED BY <1>2, <1>3, <1>4, <1>5, <1>6

LEMMA ReportFields ==
    /\ \A title_len \in Nat : TitleLines(title_len) \in Seq(Field)
    /\ EndLines \in Seq(Field)
    /\ <<Str(1)>> \in Seq(Field)
  BY FieldsAreFields DEF TitleLines, EndLines

----------------------------------------------------------------------------
(* The inductive invariant: no push checks that the cursor is in the       *)
(* buffer, each relies on the ones before it to have left it there.        *)

LinesIInv ==
    /\ rp \in Good
    /\ todo \in Seq(Field)
    /\ huge \in BOOLEAN
    /\ whole \in BOOLEAN

LEMMA PushedGood ==
    ASSUME NEW w \in Good, NEW f \in Field, f.op # "out"
    PROVE  Pushed(w, f) \subseteq Good
  <1>0. f.n \in Nat /\ f.op \in Op
    BY DEF Field
  <1>1. CASE f.op = "char"
    BY <1>0, <1>1, PushCharGood DEF Pushed
  <1>2. CASE f.op = "string"
    BY <1>0, <1>2, PushStringGood DEF Pushed
  <1>3. CASE f.op = "run"
    BY <1>0, <1>3, PushRunGood DEF Pushed
  <1>4. CASE f.op = "number"
    <2>1. f.n \in 0 .. kU64MaxCharLen
      BY <1>4 DEF Field, kU64MaxCharLen
    <2>2. \A d \in IdDigits : d \in 1 .. 20
      BY LinesAssumption
    <2>3. \A d \in IdDigits : PushNumber(w, d, f.n) \in Good
      BY <2>1, <2>2, PushNumberGood
    <2> QED BY <1>4, <2>3 DEF Pushed
  <1>5. CASE f.op = "count"
    <2>1. \A c \in Counts : c[1] \in 1 .. 20 /\ c[2] \in 1 .. 3
      BY LinesAssumption
    <2>2. \A c \in Counts : PushHumanCount(w, c[1], c[2]) \in Good
      BY <2>1, PushHumanCountGood
    <2> QED BY <1>5, <2>2 DEF Pushed
  <1>6. CASE f.op = "time"
    <2>1. \A neg \in BOOLEAN, d \in Times : PushHumanTime(w, neg, d) \in Good
      BY LinesAssumption, PushHumanTimeGood DEF Times
    <2> QED BY <1>6, <2>1 DEF Pushed
  <1>7. CASE f.op = "mem"
    <2>1. \A s \in Sizes : s[1] \in 1 .. 20 /\ s[2] \in BOOLEAN
      BY LinesAssumption
    <2>2. \A s \in Sizes : PushHumanMem(w, s[1], s[2]) \in Good
      BY <2>1, PushHumanMemGood
    <2> QED BY <1>7, <2>2 DEF Pushed
  <1>8. CASE f.op = "date"
    BY <1>8, PushDateGood DEF Pushed
  <1> QED BY <1>0, <1>1, <1>2, <1>3, <1>4, <1>5, <1>6, <1>7, <1>8 DEF Op

LEMMA EmptyGood == Empty \in Good
  BY BuffLenAssumption DEF Empty, Good

LEMMA BeginIInv ==
    ASSUME LinesIInv, NEW fields \in Seq(Field), NEW h \in BOOLEAN, Begin(fields, h)
    PROVE  LinesIInv'
  BY EmptyGood DEF LinesIInv, Begin

LEMMA NextIInv == LinesIInv /\ [LineNext]_lineVars => LinesIInv'
  <1> SUFFICES ASSUME LinesIInv, [LineNext]_lineVars
               PROVE  LinesIInv'
    OBVIOUS
  <1>1. CASE Title
    BY <1>1, BeginIInv, ReportFields, LinesAssumption DEF Title
  <1>2. CASE Part
    <2>1. <<Str(1)>> \in Seq(Field)
      BY ReportFields
    <2> QED BY <1>2, <2>1 DEF Part, LinesIInv
  <1>3. CASE Entry
    <2>1. PICK name_len \in NameLens, depth \in Depths, has \in Holdings,
               parts \in SUBSET {"max", "sm", "hl"}, h \in BOOLEAN :
            Begin((IF "cpu" \in has THEN CpuLine(name_len, depth, parts) ELSE <<>>)
                  \o (IF "mem" \in has THEN MemLine(name_len, depth) ELSE <<>>)
                  \o (IF "vm" \in has THEN VmLine(name_len, depth) ELSE <<>>)
                  \o (IF "user" \in has THEN UserLine(name_len, depth) ELSE <<>>)
                  \o DeepLine(depth), h)
      BY <1>3 DEF Entry
    <2>2. name_len \in Nat /\ depth \in Nat
      BY LinesAssumption
    <2> DEFINE c == IF "cpu" \in has THEN CpuLine(name_len, depth, parts) ELSE <<>>
               m == IF "mem" \in has THEN MemLine(name_len, depth) ELSE <<>>
               v == IF "vm" \in has THEN VmLine(name_len, depth) ELSE <<>>
               u == IF "user" \in has THEN UserLine(name_len, depth) ELSE <<>>
    <2>3. c \in Seq(Field) /\ m \in Seq(Field) /\ v \in Seq(Field) /\ u \in Seq(Field)
          /\ DeepLine(depth) \in Seq(Field)
      BY <2>2, LineFields
    <2> HIDE DEF c, m, v, u
    <2>4. c \o m \o v \o u \o DeepLine(depth) \in Seq(Field)
      BY <2>3
    <2> QED BY <2>1, <2>4, BeginIInv DEF c, m, v, u
  <1>4. CASE End
    BY <1>4, BeginIInv, ReportFields DEF End
  <1>5. CASE Push
    <2>1. Head(todo) \in Field /\ Tail(todo) \in Seq(Field) /\ Head(todo).op # "out"
      BY <1>5 DEF Push, LinesIInv
    <2>2. Pushed(rp, Head(todo)) \subseteq Good
      BY <2>1, PushedGood DEF LinesIInv
    <2> QED BY <1>5, <2>1, <2>2 DEF Push, LinesIInv
  <1>6. CASE OutputAndClean
    <2>1. Tail(todo) \in Seq(Field)
      BY <1>6 DEF OutputAndClean, LinesIInv
    <2>2. whole' \in BOOLEAN
      BY <1>6 DEF OutputAndClean, LinesIInv, Good
    <2> QED BY <1>6, <2>1, <2>2, EmptyGood DEF OutputAndClean, LinesIInv, Cleaned
  <1>7. CASE UNCHANGED lineVars
    BY <1>7 DEF LinesIInv, lineVars
  <1> QED BY <1>1, <1>2, <1>3, <1>4, <1>5, <1>6, <1>7 DEF LineNext

\* Whatever OutputReport, OutputOneRecord and OutputTempRecord push, the cursor
\* stays in the buffer, for every buffer length.
THEOREM LinesInductive == LineSpec => []LinesIInv
  <1>1. LineInit => LinesIInv
    <2>1. LineInit => rp \in Good /\ todo \in Seq(Field)
      BY EmptyGood DEF LineInit
    <2>2. LineInit => huge \in BOOLEAN /\ whole \in BOOLEAN
      BY Zenon DEF LineInit
    <2> QED BY <2>1, <2>2 DEF LinesIInv
  <1> QED BY <1>1, NextIInv, PTL DEF LineSpec

\* The variables keep their types.
THEOREM TypeCorrect == LineSpec => []LineTypeOK
  <1>1. LinesIInv => LineTypeOK
    BY BuffLenAssumption DEF LinesIInv, LineTypeOK, Good, Writer
  <1> QED BY <1>1, LinesInductive, PTL

\* No byte of a line, nor the zero that closes it, is written outside the
\* buffer of the Report.
THEOREM NeverOutside == LineSpec => []InBuffer
  <1>1. LinesIInv => InBuffer
    BY BuffLenAssumption DEF LinesIInv, InBuffer, Good, ClosedAt
  <1> QED BY <1>1, LinesInductive, PTL

----------------------------------------------------------------------------
(* Lines are whole                                                         *)

\* The bytes a push writes at most, and those it wants free.
Longest(f) ==
    CASE f.op \in {"char", "string", "run"} -> f.n
      [] f.op = "number" -> IF f.n > 9 THEN f.n ELSE 9
      [] f.op = "count" -> 21
      [] f.op = "time" -> 14
      [] f.op = "mem" -> 25
      [] f.op = "date" -> 23
      [] OTHER -> 0

Wanted(f) ==
    CASE f.op \in {"char", "string"} -> f.n
      [] f.op \in {"run", "out"} -> f.n + 1
      [] f.op = "number" -> 31
      [] f.op = "count" -> 49
      [] f.op = "time" -> 40
      [] f.op = "mem" -> 52
      [] f.op = "date" -> 50

\* The cursor after f was pushed at a, at most.
After(a, f) == IF f.op = "out" THEN 0 ELSE a + Longest(f)

\* With the cursor at most at a, all of s is pushed whole and leaves the cursor
\* at most at b: there are such bounds for every push between.
Planned(a, s, b) ==
    \E P \in [1 .. Len(s) + 1 -> Nat] :
        /\ a <= P[1] /\ P[Len(s) + 1] <= b
        /\ \A i \in 1 .. Len(s) :
              P[i] + Wanted(s[i]) <= buff_len /\ After(P[i], s[i]) <= P[i + 1]

LEMMA AfterIsNat ==
    ASSUME NEW a \in Nat, NEW f \in Field
    PROVE  After(a, f) \in Nat
  <1>1. f.n \in Nat /\ f.op \in Op
    BY DEF Field
  <1>2. CASE f.op \in {"char", "string", "run"}
    BY <1>1, <1>2 DEF After, Longest
  <1>3. CASE f.op = "number"
    BY <1>1, <1>3 DEF After, Longest
  <1>4. CASE f.op \in {"count", "time", "mem", "date", "out"}
    BY <1>4 DEF After, Longest
  <1> QED BY <1>1, <1>2, <1>3, <1>4 DEF Op

LEMMA PlannedNothing ==
    ASSUME NEW a \in Nat, NEW b \in Nat, a <= b
    PROVE  Planned(a, <<>>, b)
  <1> DEFINE P == [i \in 1 .. 1 |-> a]
  <1>1. P \in [1 .. Len(<<>>) + 1 -> Nat] /\ P[1] = a /\ P[Len(<<>>) + 1] = a
    OBVIOUS
  <1>2. Len(<<>>) = 0 /\ \A i \in 1 .. Len(<<>>) : FALSE
    OBVIOUS
  <1> HIDE DEF P
  <1> QED BY <1>1, <1>2 DEF Planned

LEMMA PlannedOne ==
    ASSUME NEW a \in Nat, NEW b \in Nat, NEW f \in Field,
           a + Wanted(f) <= buff_len, After(a, f) <= b
    PROVE  Planned(a, <<f>>, b)
  <1> DEFINE P == [i \in 1 .. 2 |-> IF i = 1 THEN a ELSE b]
  <1>1. Len(<<f>>) = 1 /\ <<f>>[1] = f /\ Len(<<f>>) + 1 = 2
    OBVIOUS
  <1>2. P \in [1 .. Len(<<f>>) + 1 -> Nat] /\ P[1] = a /\ P[Len(<<f>>) + 1] = b /\ P[2] = b
    OBVIOUS
  <1>3. \A i \in 1 .. Len(<<f>>) : P[i] + Wanted(<<f>>[i]) <= buff_len
                                  /\ After(P[i], <<f>>[i]) <= P[i + 1]
    <2> HIDE DEF P
    <2> TAKE i \in 1 .. Len(<<f>>)
    <2>1. i = 1 /\ i + 1 = 2
      BY <1>1
    <2> QED BY <1>1, <1>2, <2>1
  <1>4. a <= P[1] /\ P[Len(<<f>>) + 1] <= b
    <2> HIDE DEF P
    <2> QED BY <1>2
  <1> HIDE DEF P
  <1> QED BY <1>2, <1>3, <1>4 DEF Planned

LEMMA PlannedBoth ==
    ASSUME NEW a \in Nat, NEW b \in Nat, NEW c \in Nat,
           NEW s \in Seq(Field), NEW t \in Seq(Field),
           Planned(a, s, b), Planned(b, t, c)
    PROVE  Planned(a, s \o t, c)
  <1>1. PICK P \in [1 .. Len(s) + 1 -> Nat] :
            /\ a <= P[1] /\ P[Len(s) + 1] <= b
            /\ \A i \in 1 .. Len(s) :
                  P[i] + Wanted(s[i]) <= buff_len /\ After(P[i], s[i]) <= P[i + 1]
    BY DEF Planned
  <1>2. PICK Q \in [1 .. Len(t) + 1 -> Nat] :
            /\ b <= Q[1] /\ Q[Len(t) + 1] <= c
            /\ \A i \in 1 .. Len(t) :
                  Q[i] + Wanted(t[i]) <= buff_len /\ After(Q[i], t[i]) <= Q[i + 1]
    BY DEF Planned
  <1>3. PICK m \in Nat, n \in Nat : m = Len(s) /\ n = Len(t)
    OBVIOUS
  <1> DEFINE R == [i \in 1 .. m + n + 1 |-> IF i <= m THEN P[i] ELSE Q[i - m]]
  <1>4. Len(s \o t) = m + n
        /\ \A i \in 1 .. m + n : (s \o t)[i] = IF i <= m THEN s[i] ELSE t[i - m]
    BY <1>3
  <1>5. R \in [1 .. m + n + 1 -> Nat]
    <2>1. ASSUME NEW i \in 1 .. m + n + 1
          PROVE  (IF i <= m THEN P[i] ELSE Q[i - m]) \in Nat
      <3>1. i <= m => i \in 1 .. Len(s) + 1
        BY <1>3
      <3>2. ~(i <= m) => i - m \in 1 .. Len(t) + 1
        BY <1>3
      <3> QED BY <3>1, <3>2
    <2> QED BY <2>1
  <1>6. \A i \in 1 .. m + n + 1 : R[i] = IF i <= m THEN P[i] ELSE Q[i - m]
    OBVIOUS
  <1> HIDE DEF R
  <1>7. a <= R[1]
    <2>1. CASE m = 0
      <3>1. R[1] = Q[1] /\ a <= P[1] /\ P[1] <= b /\ P[1] \in Nat /\ Q[1] \in Nat
        BY <1>1, <1>3, <1>6, <2>1
      <3> QED BY <1>2, <3>1
    <2>2. CASE m # 0
      BY <1>1, <1>3, <1>6, <2>2
    <2> QED BY <2>1, <2>2
  <1>8. R[m + n + 1] <= c
    <2>1. ~(m + n + 1 <= m) /\ (m + n + 1) - m = n + 1 /\ m + n + 1 \in 1 .. m + n + 1
      OBVIOUS
    <2> QED BY <1>2, <1>3, <1>6, <2>1
  <1>9. ASSUME NEW i \in 1 .. m + n
        PROVE  R[i] + Wanted((s \o t)[i]) <= buff_len /\ After(R[i], (s \o t)[i]) <= R[i + 1]
    <2>0. i \in 1 .. m + n + 1 /\ i + 1 \in 1 .. m + n + 1 /\ i \in Nat
      OBVIOUS
    <2>1. CASE i < m
      <3>1. i \in 1 .. Len(s) /\ i <= m /\ i + 1 <= m
        BY <1>3, <2>0, <2>1
      <3>2. (s \o t)[i] = s[i] /\ R[i] = P[i] /\ R[i + 1] = P[i + 1]
        BY <1>4, <1>6, <2>0, <3>1
      <3> QED BY <1>1, <3>1, <3>2
    <2>2. CASE i = m
      <3>1. i \in 1 .. Len(s) /\ (s \o t)[i] = s[i] /\ R[i] = P[i] /\ R[i + 1] = Q[1]
        <4>1. i \in 1 .. Len(s) /\ i <= m /\ ~(i + 1 <= m) /\ (i + 1) - m = 1
          BY <1>3, <2>0, <2>2
        <4>2. (s \o t)[i] = s[i] /\ R[i] = P[i]
          BY <1>4, <1>6, <2>0, <4>1
        <4>3. R[i + 1] = Q[(i + 1) - m]
          BY <1>6, <2>0, <4>1
        <4> QED BY <4>1, <4>2, <4>3
      <3>2. After(P[i], s[i]) <= P[i + 1] /\ P[i + 1] <= b /\ b <= Q[1] /\ P[i + 1] \in Nat
            /\ Q[1] \in Nat
        BY <1>1, <1>2, <1>3, <2>2, <3>1
      <3>3. After(P[i], s[i]) \in Nat
        <4>1. P[i] \in Nat /\ s[i] \in Field
          BY <1>3, <2>0, <2>2
        <4> QED BY <4>1, AfterIsNat
      <3> QED BY <1>1, <3>1, <3>2, <3>3
    <2>3. CASE i > m
      <3>1. PICK j \in 1 .. n : j = i - m
        BY <2>3
      <3>2. (s \o t)[i] = t[j] /\ R[i] = Q[j] /\ R[i + 1] = Q[j + 1]
        <4>1. (i + 1) - m = j + 1 /\ i + 1 \in 1 .. m + n + 1 /\ ~(i + 1 <= m) /\ ~(i <= m)
          BY <2>3, <3>1
        <4> QED BY <1>4, <1>6, <3>1, <4>1
      <3> QED BY <1>2, <1>3, <3>1, <3>2
    <2>4. i < m \/ i = m \/ i > m
      BY <2>0
    <2> QED BY <2>1, <2>2, <2>3, <2>4
  <1>10. \E F \in [1 .. Len(s \o t) + 1 -> Nat] :
            /\ a <= F[1] /\ F[Len(s \o t) + 1] <= c
            /\ \A i \in 1 .. Len(s \o t) :
                  F[i] + Wanted((s \o t)[i]) <= buff_len /\ After(F[i], (s \o t)[i]) <= F[i + 1]
    BY <1>4, <1>5, <1>7, <1>8, <1>9
  <1> QED BY <1>10 DEF Planned

\* What is planned next fits, and the rest is planned behind it.
LEMMA PlannedNext ==
    ASSUME NEW a \in Nat, NEW b \in Nat, NEW s \in Seq(Field), s # <<>>, Planned(a, s, b)
    PROVE  \E p \in Nat, q \in Nat :
              /\ a <= p /\ p + Wanted(Head(s)) <= buff_len
              /\ After(p, Head(s)) <= q /\ Planned(q, Tail(s), b)
  <1>1. PICK P \in [1 .. Len(s) + 1 -> Nat] :
            /\ a <= P[1] /\ P[Len(s) + 1] <= b
            /\ \A i \in 1 .. Len(s) :
                  P[i] + Wanted(s[i]) <= buff_len /\ After(P[i], s[i]) <= P[i + 1]
    BY DEF Planned
  <1>2. PICK n \in Nat : n + 1 = Len(s)
    <2>1. Len(s) \in Nat /\ Len(s) # 0
      OBVIOUS
    <2> QED BY <2>1
  <1>3. Len(Tail(s)) = n /\ Head(s) = s[1] /\ \A i \in 1 .. n : Tail(s)[i] = s[i + 1]
    BY <1>2
  <1> DEFINE Q == [i \in 1 .. n + 1 |-> P[i + 1]]
  <1>4. Q \in [1 .. n + 1 -> Nat] /\ \A i \in 1 .. n + 1 : Q[i] = P[i + 1]
    BY <1>2
  <1> HIDE DEF Q
  <1>5. Q[n + 1] <= b /\ Q[1] = P[2]
    BY <1>1, <1>2, <1>4
  <1>6. ASSUME NEW i \in 1 .. n
        PROVE  Q[i] + Wanted(Tail(s)[i]) <= buff_len /\ After(Q[i], Tail(s)[i]) <= Q[i + 1]
    <2>1. i + 1 \in 1 .. Len(s) /\ Q[i] = P[i + 1] /\ Q[i + 1] = P[(i + 1) + 1]
          /\ Tail(s)[i] = s[i + 1]
      BY <1>2, <1>3, <1>4
    <2> QED BY <1>1, <2>1
  <1>7. Planned(P[2], Tail(s), b)
    <2>1. P[2] \in Nat /\ P[2] <= Q[1]
      BY <1>2, <1>4, <1>5
    <2> QED BY <1>3, <1>4, <1>5, <1>6, <2>1 DEF Planned
  <1>8. P[1] \in Nat /\ P[2] \in Nat /\ 1 \in 1 .. Len(s) /\ 1 + 1 = 2
    BY <1>2
  <1> QED BY <1>1, <1>3, <1>7, <1>8

----------------------------------------------------------------------------
(* A push that has the room it wants writes all of its value               *)

\* Nothing was left out, and the cursor is at most at b.
WholeUpTo(w, b) == w \in Good /\ w.whole /\ w.offset <= b

LEMMA WroteWhole ==
    ASSUME NEW w, NEW b \in Nat, WholeUpTo(w, b), NEW n \in Nat, b + n <= buff_len
    PROVE  WholeUpTo(Wrote(w, n), b + n)
  BY BuffLenAssumption DEF WholeUpTo, Good, Wrote

LEMMA CharWhole ==
    ASSUME NEW w, NEW b \in Nat, WholeUpTo(w, b), NEW n \in Nat, b + n <= buff_len
    PROVE  WholeUpTo(PushChar(w, n), b + n) /\ WholeUpTo(PushString(w, n), b + n)
  <1>1. n <= Room(w) /\ Room(w) >= n
    BY BuffLenAssumption DEF WholeUpTo, Good, Room
  <1> QED BY <1>1, WroteWhole DEF PushChar, PushString

LEMMA RunWhole ==
    ASSUME NEW w, NEW b \in Nat, WholeUpTo(w, b), NEW n \in Nat, b + n + 1 <= buff_len
    PROVE  WholeUpTo(PushRun(w, n), b + n)
  <1> DEFINE k == IF n > lut_size THEN lut_size ELSE n
  <1>1. k \in Nat /\ k <= n
    BY DEF lut_size
  <1>2. PushRun(w, n) = IF k <= 0 THEN w
                        ELSE IF w.offset + k >= buff_len THEN Dropped(w) ELSE Wrote(w, k)
    BY DEF PushRun
  <1> HIDE DEF k
  <1>3. WholeUpTo(w, b + n) /\ ~(w.offset + k >= buff_len)
    BY <1>1, BuffLenAssumption DEF WholeUpTo, Good
  <1>4. WholeUpTo(Wrote(w, k), b + k)
    BY <1>1, WroteWhole, BuffLenAssumption
  <1>5. WholeUpTo(Wrote(w, k), b + n)
    BY <1>1, <1>4 DEF WholeUpTo, Good
  <1> QED BY <1>2, <1>3, <1>5

LEMMA NumberWhole ==
    ASSUME NEW w, NEW b \in Nat, WholeUpTo(w, b), NEW d \in 1 .. 20, NEW wide \in 0 .. 30,
           b + 31 <= buff_len
    PROVE  WholeUpTo(PushNumber(w, d, wide), b + (IF d < wide THEN wide ELSE d))
  <1>1. PICK n \in Nat : n = IF d < wide THEN wide ELSE d
    OBVIOUS
  <1>2. HasRoom(w)
    BY BuffLenAssumption DEF WholeUpTo, Good, HasRoom, kU64MaxCharLen
  <1>3. WholeUpTo(Wrote(w, n), b + n)
    BY <1>1, WroteWhole, BuffLenAssumption
  <1>4. PushNumber(w, d, wide) = Wrote(w, n)
    BY <1>1, <1>2 DEF PushNumber
  <1> QED BY <1>1, <1>3, <1>4

LEMMA DigitsWhole ==
    ASSUME NEW w, NEW b \in Nat, WholeUpTo(w, b), NEW d \in 1 .. 20, b + 31 <= buff_len
    PROVE  /\ WholeUpTo(PushNumber(w, d, 0), b + d)
           /\ WholeUpTo(PushNumber(w, d, d), b + d)
  <1>1. 0 \in 0 .. 30 /\ d \in 0 .. 30 /\ ~(d < 0) /\ ~(d < d)
    OBVIOUS
  <1>2. WholeUpTo(PushNumber(w, d, 0), b + (IF d < 0 THEN 0 ELSE d))
    BY <1>1, NumberWhole
  <1>3. WholeUpTo(PushNumber(w, d, d), b + (IF d < d THEN d ELSE d))
    BY <1>1, NumberWhole
  <1> QED BY <1>1, <1>2, <1>3

LEMMA WholeFurther ==
    ASSUME NEW w, NEW a \in Nat, NEW b \in Nat, WholeUpTo(w, a), a <= b
    PROVE  WholeUpTo(w, b)
  BY DEF WholeUpTo, Good

LEMMA CountWhole ==
    ASSUME NEW w, NEW b \in Nat, WholeUpTo(w, b), NEW d \in 1 .. 20, NEW groups \in 1 .. 3,
           d + 4 * groups <= 25, b + 49 <= buff_len
    PROVE  WholeUpTo(PushHumanCount(w, d, groups), b + 21)
  <1> DEFINE leading == PushNumber(w, d, 0)
             second  == PushNumber(PushChar(leading, 1), 3, 3)
             third   == PushNumber(PushChar(second, 1), 3, 3)
  <1>1. HasRoom(w)
    BY BuffLenAssumption DEF WholeUpTo, Good, HasRoom, kU64MaxCharLen
  <1>2. PushHumanCount(w, d, groups) =
            IF groups = 1 THEN leading ELSE IF groups = 2 THEN second ELSE third
    BY <1>1 DEF PushHumanCount
  <1>3. WholeUpTo(leading, b + d)
    <2>1. b + 31 <= buff_len
      BY BuffLenAssumption
    <2> QED BY <2>1, DigitsWhole
  <1> HIDE DEF leading
  <1>4. ASSUME groups # 1
        PROVE  WholeUpTo(second, b + d + 4)
    <2>1. WholeUpTo(PushChar(leading, 1), (b + d) + 1)
      BY <1>3, <1>4, CharWhole, BuffLenAssumption
    <2>2. b + d + 1 + 31 <= buff_len
      BY <1>4, BuffLenAssumption
    <2>3. WholeUpTo(second, (b + d + 1) + 3)
      BY <2>1, <2>2, DigitsWhole, BuffLenAssumption
    <2> QED BY <2>3
  <1> HIDE DEF second
  <1>5. ASSUME groups = 3
        PROVE  WholeUpTo(third, b + d + 8)
    <2>0. groups # 1
      BY <1>5
    <2>1. WholeUpTo(PushChar(second, 1), (b + d + 4) + 1)
      BY <1>4, <1>5, <2>0, CharWhole, BuffLenAssumption
    <2>2. b + d + 5 + 31 <= buff_len
      BY <1>5, BuffLenAssumption
    <2>3. WholeUpTo(third, (b + d + 5) + 3)
      BY <2>1, <2>2, DigitsWhole, BuffLenAssumption
    <2> QED BY <2>3
  <1> HIDE DEF third
  <1>6. \A x : \A n \in Nat : WholeUpTo(x, n) /\ n <= b + 21 => WholeUpTo(x, b + 21)
    BY DEF WholeUpTo, Good
  <1>7. CASE groups = 1
    BY <1>2, <1>3, <1>6, <1>7
  <1>8. CASE groups = 2
    BY <1>2, <1>4, <1>6, <1>8
  <1>9. CASE groups = 3
    BY <1>2, <1>5, <1>6, <1>9
  <1> QED BY <1>7, <1>8, <1>9

LEMMA TimeWhole ==
    ASSUME NEW w, NEW b \in Nat, WholeUpTo(w, b), NEW neg \in BOOLEAN, NEW d \in 1 .. 8,
           b + 40 <= buff_len
    PROVE  WholeUpTo(PushHumanTime(w, neg, d), b + 14)
  <1>1. HasRoom(w)
    BY BuffLenAssumption DEF WholeUpTo, Good, HasRoom, kU64MaxCharLen
  <1>2. \A x : \A n \in Nat : WholeUpTo(x, n) /\ n <= b + 14 => WholeUpTo(x, b + 14)
    BY DEF WholeUpTo, Good
  <1>3. CASE neg
    <2>1. WholeUpTo(PushString(w, 7), b + 7)
      BY CharWhole, BuffLenAssumption
    <2> QED BY <1>1, <1>2, <1>3, <2>1 DEF PushHumanTime
  <1>4. CASE ~neg
    <2> DEFINE x == PushNumber(w, d, 0)
               y == PushNumber(Wrote(x, 1), 3, 3)
    <2>1. PushHumanTime(w, neg, d) = Wrote(y, 2)
      BY <1>1, <1>4 DEF PushHumanTime, PushSigned
    <2>2. WholeUpTo(x, b + d)
      <3>1. b + 31 <= buff_len
        BY BuffLenAssumption
      <3> QED BY <3>1, DigitsWhole
    <2> HIDE DEF x
    <2>3. WholeUpTo(Wrote(x, 1), (b + d) + 1)
      BY <2>2, WroteWhole, BuffLenAssumption
    <2>4. WholeUpTo(y, (b + d + 1) + 3)
      <3>1. b + d + 1 + 31 <= buff_len /\ b + d + 1 \in Nat /\ 3 \in 1 .. 20
        BY BuffLenAssumption
      <3> QED BY <2>3, <3>1, DigitsWhole
    <2> HIDE DEF y
    <2>5. WholeUpTo(Wrote(y, 2), (b + d + 4) + 2)
      BY <2>4, WroteWhole, BuffLenAssumption
    <2> QED BY <1>2, <2>1, <2>5
  <1> QED BY <1>3, <1>4

LEMMA MemWhole ==
    ASSUME NEW w, NEW b \in Nat, WholeUpTo(w, b), NEW d \in 1 .. 20, NEW frac \in BOOLEAN,
           b + 52 <= buff_len
    PROVE  WholeUpTo(PushHumanMem(w, d, frac), b + 25)
  <1> DEFINE x == PushNumber(w, d, 0)
             y == PushNumber(PushChar(x, 1), 3, 3)
  <1>1. HasRoom(w)
    BY BuffLenAssumption DEF WholeUpTo, Good, HasRoom, kU64MaxCharLen
  <1>2. \A z : \A n \in Nat : WholeUpTo(z, n) /\ n <= b + 25 => WholeUpTo(z, b + 25)
    BY DEF WholeUpTo, Good
  <1>3. PushHumanMem(w, d, frac) = IF frac THEN PushChar(y, 1) ELSE PushChar(x, 1)
    BY <1>1 DEF PushHumanMem
  <1>4. WholeUpTo(x, b + d)
    <2>1. b + 31 <= buff_len
      BY BuffLenAssumption
    <2> QED BY <2>1, DigitsWhole
  <1> HIDE DEF x
  <1>5. WholeUpTo(PushChar(x, 1), (b + d) + 1)
    BY <1>4, CharWhole, BuffLenAssumption
  <1>6. WholeUpTo(y, (b + d + 1) + 3)
    <2>1. b + d + 1 + 31 <= buff_len /\ b + d + 1 \in Nat /\ 3 \in 1 .. 20
      BY BuffLenAssumption
    <2> QED BY <1>5, <2>1, DigitsWhole
  <1> HIDE DEF y
  <1>7. WholeUpTo(PushChar(y, 1), (b + d + 4) + 1)
    BY <1>6, CharWhole, BuffLenAssumption
  <1> QED BY <1>2, <1>3, <1>5, <1>7

LEMMA DateWhole ==
    ASSUME NEW w, NEW b \in Nat, WholeUpTo(w, b), b + 50 <= buff_len
    PROVE  WholeUpTo(PushDate(w), b + 23)
  <1> DEFINE N(x, n) == PushNumber(x, n, n)
             CN(x, n) == PushNumber(PushChar(x, 1), n, n)
  <1>1. ASSUME NEW x, NEW k \in 0 .. 19, NEW n \in {2, 3, 4}, WholeUpTo(x, b + k)
        PROVE  WholeUpTo(N(x, n), b + (k + n))
    <2>1. n \in 1 .. 20 /\ (b + k) \in Nat /\ (b + k) + 31 <= buff_len
      BY BuffLenAssumption
    <2>2. WholeUpTo(N(x, n), (b + k) + n)
      BY <1>1, <2>1, DigitsWhole
    <2> QED BY <2>2
  <1>2. ASSUME NEW x, NEW k \in 0 .. 22, WholeUpTo(x, b + k)
        PROVE  WholeUpTo(PushChar(x, 1), b + (k + 1))
    <2>1. WholeUpTo(PushChar(x, 1), (b + k) + 1)
      BY <1>2, CharWhole, BuffLenAssumption
    <2> QED BY <2>1
  <1>3. ASSUME NEW x, NEW k \in 0 .. 18, NEW n \in {2, 3, 4}, WholeUpTo(x, b + k)
        PROVE  WholeUpTo(CN(x, n), b + (k + 1 + n))
    <2>1. PICK y : y = PushChar(x, 1)
      OBVIOUS
    <2>2. WholeUpTo(y, b + (k + 1)) /\ k + 1 \in 0 .. 19
      BY <1>2, <1>3, <2>1
    <2>3. WholeUpTo(N(y, n), b + ((k + 1) + n))
      BY <1>1, <2>2
    <2> QED BY <2>1, <2>3
  <1> DEFINE day  == N(N(CN(w, 4), 2), 2)
             min  == CN(CN(day, 2), 2)
             full == CN(CN(min, 2), 3)
  <1>4. PushDate(w) = PushChar(full, 1)
    BY DEF PushDate
  <1> HIDE DEF N, CN
  <1>5. WholeUpTo(CN(w, 4), b + (0 + 1 + 4))
    <2>1. WholeUpTo(w, b + 0)
      OBVIOUS
    <2> QED BY <1>3, <2>1
  <1>6. WholeUpTo(N(CN(w, 4), 2), b + (5 + 2))
    BY <1>1, <1>5
  <1>7. WholeUpTo(day, b + (7 + 2))
    BY <1>1, <1>6
  <1> HIDE DEF day
  <1>8. WholeUpTo(CN(day, 2), b + (9 + 1 + 2))
    BY <1>3, <1>7
  <1>9. WholeUpTo(min, b + (12 + 1 + 2))
    BY <1>3, <1>8
  <1> HIDE DEF min
  <1>10. WholeUpTo(CN(min, 2), b + (15 + 1 + 2))
    BY <1>3, <1>9
  <1>11. WholeUpTo(full, b + (18 + 1 + 3))
    BY <1>3, <1>10
  <1> HIDE DEF full
  <1>12. WholeUpTo(PushChar(full, 1), b + (22 + 1))
    BY <1>2, <1>11
  <1> QED BY <1>4, <1>12

----------------------------------------------------------------------------
(* Every line is planned                                                   *)

\* A push with the cursor at most at a, which is at most at b behind it.
Goes(a, f, b) == a + Wanted(f) <= buff_len /\ After(a, f) <= b

LEMMA Pushes ==
    ASSUME NEW a \in Nat, NEW b \in Nat
    PROVE  /\ \A n \in Nat : a + n <= b /\ a + n < buff_len =>
                Goes(a, Str(n), b) /\ Goes(a, Chr(n), b) /\ Goes(a, Run(n), b)
           /\ a + 9 <= b /\ a + 31 <= buff_len => Goes(a, Num(3), b)
           /\ a + 21 <= b /\ a + 49 <= buff_len => Goes(a, Count, b)
           /\ a + 14 <= b /\ a + 40 <= buff_len => Goes(a, Time, b)
           /\ a + 25 <= b /\ a + 52 <= buff_len => Goes(a, Mem, b)
           /\ a + 23 <= b /\ a + 50 <= buff_len => Goes(a, Date, b)
           /\ a < buff_len => Goes(a, Out, b)
  BY BuffLenAssumption
     DEF Goes, Wanted, After, Longest, Str, Chr, Run, Num, Count, Time, Mem, Date, Out

LEMMA HeadPlanned ==
    ASSUME LineFits, NEW name_len \in Nat, NEW depth \in Depths, NEW kind \in 9 .. 10,
           name_len + Padding(name_len, depth) <= DescMax
    PROVE  Planned(0, EntryHead(name_len, depth, kind), 2 * MaxDepth + DescMax + 16 + kind)
  <1>1. PICK D \in Nat, pad \in Nat, i \in Nat :
            D = 2 * MaxDepth + 2 /\ pad = Padding(name_len, depth) /\ i = 2 * depth
    <2>1. 2 * MaxDepth + 2 \in Nat /\ 2 * depth \in Nat /\ Padding(name_len, depth) \in Nat
      BY LinesAssumption DEF Padding
    <2> QED BY <2>1
  <1>2. i <= D /\ name_len + pad <= DescMax /\ D + DescMax + 238 <= buff_len
    BY <1>1, LinesAssumption, BuffLenAssumption DEF LineFits
  <1> DEFINE s == <<Run(i), Str(1), Num(3), Str(2), Str(name_len), Run(pad), Str(2), Str(kind)>>
             P == <<0, D, D + 1, D + 10, D + 12, D + 12 + name_len, D + 12 + name_len + pad,
                    D + 14 + name_len + pad, D + 14 + name_len + pad + kind>>
  <1>3. Len(s) = 8 /\ P \in [1 .. 9 -> Nat]
    OBVIOUS
  <1>4. /\ P[1] = 0 /\ P[2] = D /\ P[3] = D + 1 /\ P[4] = D + 10 /\ P[5] = D + 12
        /\ P[6] = D + 12 + name_len /\ P[7] = P[6] + pad /\ P[8] = P[7] + 2
        /\ P[9] = P[8] + kind
    OBVIOUS
  <1>5. \A j \in 1 .. 8 : Goes(P[j], s[j], P[j + 1])
    <2> HIDE DEF P
    <2>0. \A j \in 1 .. 9 : P[j] \in Nat
      BY <1>3
    <2>1. Goes(P[1], Run(i), P[2]) /\ Goes(P[2], Str(1), P[3])
      BY <1>2, <1>4, <2>0, Pushes, BuffLenAssumption, LinesAssumption
    <2>2. Goes(P[3], Num(3), P[4]) /\ Goes(P[4], Str(2), P[5])
      BY <1>2, <1>4, <2>0, Pushes, BuffLenAssumption, LinesAssumption
    <2>3. Goes(P[5], Str(name_len), P[6]) /\ Goes(P[6], Run(pad), P[7])
      BY <1>2, <1>4, <2>0, Pushes, BuffLenAssumption, LinesAssumption
    <2>4. Goes(P[7], Str(2), P[8]) /\ Goes(P[8], Str(kind), P[9])
      BY <1>2, <1>4, <2>0, Pushes, BuffLenAssumption, LinesAssumption
    <2> QED BY <2>1, <2>2, <2>3, <2>4
  <1>6. Planned(0, s, 2 * MaxDepth + DescMax + 16 + kind)
    <2>1. 0 <= P[1] /\ P[9] <= 2 * MaxDepth + DescMax + 16 + kind
      BY <1>1, <1>2, LinesAssumption
    <2> HIDE DEF P, s
    <2> QED BY <1>3, <1>5, <2>1 DEF Planned, Goes
  <1> QED BY <1>1, <1>6 DEF EntryHead

LEMMA PartPlanned ==
    ASSUME NEW a \in Nat, NEW n \in Nat, a + n + 56 <= buff_len
    PROVE  Planned(a, <<Str(n), Time, Str(2), Time>>, a + n + 30)
  <1> DEFINE s == <<Str(n), Time, Str(2), Time>>
             P == <<a, a + n, a + n + 14, a + n + 16, a + n + 30>>
  <1>1. Len(s) = 4 /\ P \in [1 .. 5 -> Nat]
    OBVIOUS
  <1>2. /\ P[1] = a /\ P[2] = a + n /\ P[3] = a + n + 14
       /\ P[4] = a + n + 16 /\ P[5] = a + n + 30
    OBVIOUS
  <1>3. \A j \in 1 .. 4 : Goes(P[j], s[j], P[j + 1])
    <2> HIDE DEF P
    <2>1. \A j \in 1 .. 5 : P[j] \in Nat
      BY <1>1
    <2>2. /\ Goes(P[1], Str(n), P[2]) /\ Goes(P[2], Time, P[3])
         /\ Goes(P[3], Str(2), P[4])
      BY <1>2, <2>1, Pushes, BuffLenAssumption
    <2>3. Goes(P[4], Time, P[5])
      BY <1>2, <2>1, Pushes, BuffLenAssumption
    <2> QED BY <2>2, <2>3
  <1> HIDE DEF P, s
  <1>4. a <= P[1] /\ P[5] <= a + n + 30
    BY <1>2, BuffLenAssumption
  <1> QED BY <1>1, <1>3, <1>4 DEF Planned, Goes, s

LEMMA TailPlanned ==
    ASSUME NEW a \in Nat, a + 4 < buff_len
    PROVE  Planned(a, <<Str(4), Out>>, 0)
  <1> DEFINE s == <<Str(4), Out>>
             P == <<a, a + 4, 0>>
  <1>1. Len(s) = 2 /\ P \in [1 .. 3 -> Nat]
    OBVIOUS
  <1>2. /\ P[1] = a /\ P[2] = a + 4 /\ P[3] = 0
    OBVIOUS
  <1>3. \A j \in 1 .. 2 : Goes(P[j], s[j], P[j + 1])
    <2> HIDE DEF P
    <2>1. \A j \in 1 .. 3 : P[j] \in Nat
      BY <1>1
    <2>2. Goes(P[1], Str(4), P[2]) /\ Goes(P[2], Out, P[3])
      BY <1>2, <2>1, Pushes, BuffLenAssumption
    <2> QED BY <2>2
  <1> HIDE DEF P, s
  <1>4. a <= P[1] /\ P[3] <= 0
    BY <1>2, BuffLenAssumption
  <1> QED BY <1>1, <1>3, <1>4 DEF Planned, Goes, s

LEMMA Joined ==
    ASSUME NEW a \in Nat, NEW b \in Nat, NEW c \in Nat, NEW s, NEW t,
           s \in Seq(Field) /\ Planned(a, s, b), t \in Seq(Field) /\ Planned(b, t, c)
    PROVE  s \o t \in Seq(Field) /\ Planned(a, s \o t, c)
  <1>1. s \o t \in Seq(Field)
    OBVIOUS
  <1> QED BY <1>1, PlannedBoth

LEMMA CpuPlanned ==
    ASSUME LineFits, NEW name_len \in Nat, NEW depth \in Depths, NEW parts,
           name_len + Padding(name_len, depth) <= DescMax
    PROVE  Planned(0, CpuLine(name_len, depth, parts), 0)
  <1>1. PICK h \in Nat : h = 2 * MaxDepth + DescMax + 25
    BY LinesAssumption
  <1>2. h + 215 <= buff_len
    BY <1>1, LinesAssumption, BuffLenAssumption DEF LineFits
  <1>3. PICK p \in Nat, q \in Nat, r \in Nat, z \in Nat :
            p = h + 54 /\ q = p + 47 /\ r = q + 45 /\ z = r + 43
    OBVIOUS
  <1> DEFINE Opt(o, n) == IF o \in parts THEN <<Str(n), Time, Str(2), Time>> ELSE <<>>
  <1>4. PICK hd, ct : hd = EntryHead(name_len, depth, 9)
                      /\ ct = <<Count, Str(3), Time, Str(2), Time>>
    OBVIOUS
  <1>5. hd \in Seq(Field) /\ Planned(0, hd, h)
    <2>1. Planned(0, EntryHead(name_len, depth, 9), 2 * MaxDepth + DescMax + 16 + 9)
      BY HeadPlanned
    <2>2. 2 * MaxDepth + DescMax + 16 + 9 = h /\ depth \in Nat
      BY <1>1, LinesAssumption
    <2> QED BY <1>4, <2>1, <2>2, HeadFields
  <1>6. ct \in Seq(Field) /\ Planned(h, ct, p)
    <2>1. Planned(h, <<Count, Str(3), Time, Str(2), Time>>, p)
      <3> DEFINE s == <<Count, Str(3), Time, Str(2), Time>>
                 P == <<h, h + 21, h + 24, h + 38, h + 40, h + 54>>
      <3>1. Len(s) = 5 /\ P \in [1 .. 6 -> Nat]
        OBVIOUS
      <3>2. /\ P[1] = h /\ P[2] = h + 21 /\ P[3] = h + 24
           /\ P[4] = h + 38 /\ P[5] = h + 40 /\ P[6] = h + 54
        OBVIOUS
      <3>3. \A j \in 1 .. 5 : Goes(P[j], s[j], P[j + 1])
        <4> HIDE DEF P
        <4>1. \A j \in 1 .. 6 : P[j] \in Nat
          BY <3>1
        <4>2. /\ Goes(P[1], Count, P[2]) /\ Goes(P[2], Str(3), P[3])
             /\ Goes(P[3], Time, P[4])
          BY <3>2, <4>1, Pushes, <1>2, <1>3, BuffLenAssumption
        <4>3. Goes(P[4], Str(2), P[5]) /\ Goes(P[5], Time, P[6])
          BY <3>2, <4>1, Pushes, <1>2, <1>3, BuffLenAssumption
        <4> QED BY <4>2, <4>3
      <3> HIDE DEF P, s
      <3>4. h <= P[1] /\ P[6] <= p
        BY <3>2, <1>2, <1>3, BuffLenAssumption
      <3> QED BY <3>1, <3>3, <3>4 DEF Planned, Goes, s
    <2> QED BY <1>4, <2>1, FieldsAreFields
  <1>7. PICK mx, sm, hl : mx = Opt("max", 17) /\ sm = Opt("sm", 15) /\ hl = Opt("hl", 13)
    OBVIOUS
  <1>8. /\ mx \in Seq(Field) /\ Planned(p, mx, q)
        /\ sm \in Seq(Field) /\ Planned(q, sm, r)
        /\ hl \in Seq(Field) /\ Planned(r, hl, z)
    <2>1. ASSUME NEW o, NEW a \in Nat, NEW n \in Nat, NEW b \in Nat,
                 a + n + 56 <= buff_len, b = a + n + 30
          PROVE  Opt(o, n) \in Seq(Field) /\ Planned(a, Opt(o, n), b)
      <3>1. Planned(a, <<>>, b)
        BY <2>1, PlannedNothing
      <3>2. <<Str(n), Time, Str(2), Time>> \in Seq(Field) /\ <<>> \in Seq(Field)
        BY FieldsAreFields
      <3> QED BY <2>1, <3>1, <3>2, PartPlanned
    <2> HIDE DEF Opt
    <2>2. Opt("max", 17) \in Seq(Field) /\ Planned(p, Opt("max", 17), q)
      <3>1. p + 17 + 56 <= buff_len /\ q = p + 17 + 30
        BY <1>2, <1>3, BuffLenAssumption
      <3> QED BY <2>1, <3>1
    <2>3. Opt("sm", 15) \in Seq(Field) /\ Planned(q, Opt("sm", 15), r)
      <3>1. q + 15 + 56 <= buff_len /\ r = q + 15 + 30
        BY <1>2, <1>3, BuffLenAssumption
      <3> QED BY <2>1, <3>1
    <2>4. Opt("hl", 13) \in Seq(Field) /\ Planned(r, Opt("hl", 13), z)
      <3>1. r + 13 + 56 <= buff_len /\ z = r + 13 + 30
        BY <1>2, <1>3, BuffLenAssumption
      <3> QED BY <2>1, <3>1
    <2> QED BY <1>7, <2>2, <2>3, <2>4
  <1>9. PICK tl : tl = <<Str(4), Out>>
    OBVIOUS
  <1>10. tl \in Seq(Field) /\ Planned(z, tl, 0)
    <2>1. z + 4 < buff_len
      BY <1>2, <1>3, BuffLenAssumption
    <2>2. Planned(z, <<Str(4), Out>>, 0)
      BY <2>1, TailPlanned
    <2> QED BY <1>9, <2>2, FieldsAreFields
  <1>11. CpuLine(name_len, depth, parts) = hd \o ct \o mx \o sm \o hl \o tl
    BY <1>4, <1>7, <1>9 DEF CpuLine
  <1> HIDE DEF Opt
  <1>12. hd \o ct \in Seq(Field) /\ Planned(0, hd \o ct, p)
    BY <1>5, <1>6, Joined
  <1>13. hd \o ct \o mx \in Seq(Field) /\ Planned(0, hd \o ct \o mx, q)
    BY <1>8, <1>12, Joined
  <1>14. hd \o ct \o mx \o sm \in Seq(Field) /\ Planned(0, hd \o ct \o mx \o sm, r)
    BY <1>8, <1>13, Joined
  <1>15. /\ hd \o ct \o mx \o sm \o hl \in Seq(Field)
         /\ Planned(0, hd \o ct \o mx \o sm \o hl, z)
    BY <1>8, <1>14, Joined
  <1>16. Planned(0, hd \o ct \o mx \o sm \o hl \o tl, 0)
    BY <1>10, <1>15, Joined
  <1> QED BY <1>11, <1>16

LEMMA MemPlanned ==
    ASSUME LineFits, NEW name_len \in Nat, NEW depth \in Depths,
           name_len + Padding(name_len, depth) <= DescMax
    PROVE  Planned(0, MemLine(name_len, depth), 0)
  <1>1. PICK h \in Nat : h = 2 * MaxDepth + DescMax + 25
    BY LinesAssumption
  <1>2. h + 214 <= buff_len
    BY <1>1, LinesAssumption, BuffLenAssumption DEF LineFits
  <1>3. EntryHead(name_len, depth, 9) \in Seq(Field)
        /\ Planned(0, EntryHead(name_len, depth, 9), h)
    <2>1. Planned(0, EntryHead(name_len, depth, 9), 2 * MaxDepth + DescMax + 16 + 9)
      BY HeadPlanned
    <2>2. 2 * MaxDepth + DescMax + 16 + 9 = h /\ depth \in Nat
      BY <1>1, LinesAssumption
    <2> QED BY <2>1, <2>2, HeadFields
  <1> DEFINE t == <<Count, Str(3), Mem, Str(2), Mem, Str(8), Str(4), Out>>
  <1>4. Planned(h, t, 0)
    <2> DEFINE s == <<Count, Str(3), Mem, Str(2), Mem, Str(8), Str(4), Out>>
               P == <<h, h + 21, h + 24, h + 49, h + 51, h + 76, h + 84,
                          h + 88, 0>>
    <2>1. Len(s) = 8 /\ P \in [1 .. 9 -> Nat]
      OBVIOUS
    <2>2. /\ P[1] = h /\ P[2] = h + 21 /\ P[3] = h + 24
         /\ P[4] = h + 49 /\ P[5] = h + 51 /\ P[6] = h + 76
         /\ P[7] = h + 84 /\ P[8] = h + 88 /\ P[9] = 0
      OBVIOUS
    <2>3. \A j \in 1 .. 8 : Goes(P[j], s[j], P[j + 1])
      <3> HIDE DEF P
      <3>1. \A j \in 1 .. 9 : P[j] \in Nat
        BY <2>1
      <3>2. /\ Goes(P[1], Count, P[2]) /\ Goes(P[2], Str(3), P[3])
           /\ Goes(P[3], Mem, P[4])
        BY <2>2, <3>1, Pushes, <1>2, BuffLenAssumption
      <3>3. /\ Goes(P[4], Str(2), P[5]) /\ Goes(P[5], Mem, P[6])
           /\ Goes(P[6], Str(8), P[7])
        BY <2>2, <3>1, Pushes, <1>2, BuffLenAssumption
      <3>4. Goes(P[7], Str(4), P[8]) /\ Goes(P[8], Out, P[9])
        BY <2>2, <3>1, Pushes, <1>2, BuffLenAssumption
      <3> QED BY <3>2, <3>3, <3>4
    <2> HIDE DEF P, s
    <2>4. h <= P[1] /\ P[9] <= 0
      BY <2>2, <1>2, BuffLenAssumption
    <2> QED BY <2>1, <2>3, <2>4 DEF Planned, Goes, s
  <1>5. t \in Seq(Field)
    BY FieldsAreFields
  <1> HIDE DEF t
  <1>6. Planned(0, EntryHead(name_len, depth, 9) \o t, 0)
    BY <1>3, <1>4, <1>5, PlannedBoth
  <1> QED BY <1>6 DEF MemLine, t

LEMMA VmPlanned ==
    ASSUME LineFits, NEW name_len \in Nat, NEW depth \in Depths,
           name_len + Padding(name_len, depth) <= DescMax
    PROVE  Planned(0, VmLine(name_len, depth), 0)
  <1>1. PICK h \in Nat : h = 2 * MaxDepth + DescMax + 25
    BY LinesAssumption
  <1>2. h + 214 <= buff_len
    BY <1>1, LinesAssumption, BuffLenAssumption DEF LineFits
  <1>3. EntryHead(name_len, depth, 9) \in Seq(Field)
        /\ Planned(0, EntryHead(name_len, depth, 9), h)
    <2>1. Planned(0, EntryHead(name_len, depth, 9), 2 * MaxDepth + DescMax + 16 + 9)
      BY HeadPlanned
    <2>2. 2 * MaxDepth + DescMax + 16 + 9 = h /\ depth \in Nat
      BY <1>1, LinesAssumption
    <2> QED BY <2>1, <2>2, HeadFields
  <1> DEFINE t == <<Mem, Str(6), Mem, Str(7), Mem, Str(7),
             Mem, Str(5), Str(4), Out>>
  <1>4. Planned(h, t, 0)
    <2> DEFINE s == <<Mem, Str(6), Mem, Str(7), Mem, Str(7), Mem, Str(5),
                          Str(4), Out>>
               P == <<h, h + 25, h + 31, h + 56, h + 63, h + 88, h + 95,
                          h + 120, h + 125, h + 129, 0>>
    <2>1. Len(s) = 10 /\ P \in [1 .. 11 -> Nat]
      OBVIOUS
    <2>2. /\ P[1] = h /\ P[2] = h + 25 /\ P[3] = h + 31
         /\ P[4] = h + 56 /\ P[5] = h + 63 /\ P[6] = h + 88
         /\ P[7] = h + 95 /\ P[8] = h + 120 /\ P[9] = h + 125
         /\ P[10] = h + 129 /\ P[11] = 0
      OBVIOUS
    <2>3. \A j \in 1 .. 10 : Goes(P[j], s[j], P[j + 1])
      <3> HIDE DEF P
      <3>1. \A j \in 1 .. 11 : P[j] \in Nat
        BY <2>1
      <3>2. /\ Goes(P[1], Mem, P[2]) /\ Goes(P[2], Str(6), P[3])
           /\ Goes(P[3], Mem, P[4])
        BY <2>2, <3>1, Pushes, <1>2, BuffLenAssumption
      <3>3. /\ Goes(P[4], Str(7), P[5]) /\ Goes(P[5], Mem, P[6])
           /\ Goes(P[6], Str(7), P[7])
        BY <2>2, <3>1, Pushes, <1>2, BuffLenAssumption
      <3>4. /\ Goes(P[7], Mem, P[8]) /\ Goes(P[8], Str(5), P[9])
           /\ Goes(P[9], Str(4), P[10])
        BY <2>2, <3>1, Pushes, <1>2, BuffLenAssumption
      <3>5. Goes(P[10], Out, P[11])
        BY <2>2, <3>1, Pushes, <1>2, BuffLenAssumption
      <3> QED BY <3>2, <3>3, <3>4, <3>5
    <2> HIDE DEF P, s
    <2>4. h <= P[1] /\ P[11] <= 0
      BY <2>2, <1>2, BuffLenAssumption
    <2> QED BY <2>1, <2>3, <2>4 DEF Planned, Goes, s
  <1>5. t \in Seq(Field)
    BY FieldsAreFields
  <1> HIDE DEF t
  <1>6. Planned(0, EntryHead(name_len, depth, 9) \o t, 0)
    BY <1>3, <1>4, <1>5, PlannedBoth
  <1> QED BY <1>6 DEF VmLine, t

LEMMA UserPlanned ==
    ASSUME LineFits, NEW name_len \in Nat, NEW depth \in Depths,
           name_len + Padding(name_len, depth) <= DescMax
    PROVE  Planned(0, UserLine(name_len, depth), 0)
  <1>1. PICK h \in Nat : h = 2 * MaxDepth + DescMax + 26
    BY LinesAssumption
  <1>2. h + 214 <= buff_len
    BY <1>1, LinesAssumption, BuffLenAssumption DEF LineFits
  <1>3. EntryHead(name_len, depth, 10) \in Seq(Field)
        /\ Planned(0, EntryHead(name_len, depth, 10), h)
    <2>1. Planned(0, EntryHead(name_len, depth, 10), 2 * MaxDepth + DescMax + 16 + 10)
      BY HeadPlanned
    <2>2. 2 * MaxDepth + DescMax + 16 + 10 = h /\ depth \in Nat
      BY <1>1, LinesAssumption
    <2> QED BY <2>1, <2>2, HeadFields
  <1> DEFINE t == <<Count, Str(4), Count, Str(4), Count, Str(4),
             Count, Str(4), Out>>
  <1>4. Planned(h, t, 0)
    <2> DEFINE s == <<Count, Str(4), Count, Str(4), Count, Str(4), Count,
                          Str(4), Out>>
               P == <<h, h + 21, h + 25, h + 46, h + 50, h + 71, h + 75,
                          h + 96, h + 100, 0>>
    <2>1. Len(s) = 9 /\ P \in [1 .. 10 -> Nat]
      OBVIOUS
    <2>2. /\ P[1] = h /\ P[2] = h + 21 /\ P[3] = h + 25
         /\ P[4] = h + 46 /\ P[5] = h + 50 /\ P[6] = h + 71
         /\ P[7] = h + 75 /\ P[8] = h + 96 /\ P[9] = h + 100
         /\ P[10] = 0
      OBVIOUS
    <2>3. \A j \in 1 .. 9 : Goes(P[j], s[j], P[j + 1])
      <3> HIDE DEF P
      <3>1. \A j \in 1 .. 10 : P[j] \in Nat
        BY <2>1
      <3>2. /\ Goes(P[1], Count, P[2]) /\ Goes(P[2], Str(4), P[3])
           /\ Goes(P[3], Count, P[4])
        BY <2>2, <3>1, Pushes, <1>2, BuffLenAssumption
      <3>3. /\ Goes(P[4], Str(4), P[5]) /\ Goes(P[5], Count, P[6])
           /\ Goes(P[6], Str(4), P[7])
        BY <2>2, <3>1, Pushes, <1>2, BuffLenAssumption
      <3>4. /\ Goes(P[7], Count, P[8]) /\ Goes(P[8], Str(4), P[9])
           /\ Goes(P[9], Out, P[10])
        BY <2>2, <3>1, Pushes, <1>2, BuffLenAssumption
      <3> QED BY <3>2, <3>3, <3>4
    <2> HIDE DEF P, s
    <2>4. h <= P[1] /\ P[10] <= 0
      BY <2>2, <1>2, BuffLenAssumption
    <2> QED BY <2>1, <2>3, <2>4 DEF Planned, Goes, s
  <1>5. t \in Seq(Field)
    BY FieldsAreFields
  <1> HIDE DEF t
  <1>6. Planned(0, EntryHead(name_len, depth, 10) \o t, 0)
    BY <1>3, <1>4, <1>5, PlannedBoth
  <1> QED BY <1>6 DEF UserLine, t

LEMMA DeepPlanned ==
    ASSUME LineFits, NEW depth \in Depths
    PROVE  Planned(0, DeepLine(depth), 0)
  <1>1. PICK n \in Nat : n = 2 * depth
    BY LinesAssumption
  <1>2. n + 1 <= buff_len
    BY <1>1, LinesAssumption, BuffLenAssumption DEF LineFits
  <1>3. Planned(0, <<Run(n), Out>>, 0)
    <2> DEFINE s == <<Run(n), Out>>
               P == <<0, n, 0>>
    <2>1. Len(s) = 2 /\ P \in [1 .. 3 -> Nat]
      OBVIOUS
    <2>2. /\ P[1] = 0 /\ P[2] = n /\ P[3] = 0
      OBVIOUS
    <2>3. \A j \in 1 .. 2 : Goes(P[j], s[j], P[j + 1])
      <3> HIDE DEF P
      <3>1. \A j \in 1 .. 3 : P[j] \in Nat
        BY <2>1
      <3>2. Goes(P[1], Run(n), P[2]) /\ Goes(P[2], Out, P[3])
        BY <2>2, <3>1, Pushes, <1>2, BuffLenAssumption
      <3> QED BY <3>2
    <2> HIDE DEF P, s
    <2>4. 0 <= P[1] /\ P[3] <= 0
      BY <2>2, <1>2, BuffLenAssumption
    <2> QED BY <2>1, <2>3, <2>4 DEF Planned, Goes, s
  <1>4. Planned(0, <<>>, 0)
    BY PlannedNothing
  <1> QED BY <1>1, <1>3, <1>4 DEF DeepLine

LEMMA CatIs ==
    ASSUME NEW s \in Seq(Field), NEW t \in Seq(Field), NEW x \in Seq(Field),
           Len(x) = Len(s) + Len(t),
           \A i \in 1 .. Len(s) : x[i] = s[i],
           \A i \in 1 .. Len(t) : x[i + Len(s)] = t[i]
    PROVE  s \o t = x
  <1>1. s \o t \in Seq(Field) /\ Len(s \o t) = Len(s) + Len(t)
    OBVIOUS
  <1>2. ASSUME NEW i \in 1 .. Len(s) + Len(t)
        PROVE  (s \o t)[i] = x[i]
    <2>1. CASE i <= Len(s)
      <3>1. i \in 1 .. Len(s) /\ (s \o t)[i] = s[i]
        BY <2>1
      <3> QED BY <3>1
    <2>2. CASE ~(i <= Len(s))
      <3>1. PICK j \in 1 .. Len(t) : i = j + Len(s)
        <4>1. i - Len(s) \in 1 .. Len(t) /\ i = (i - Len(s)) + Len(s)
          BY <2>2
        <4> QED BY <4>1
      <3>2. (s \o t)[i] = t[j]
        BY <2>2, <3>1
      <3> QED BY <3>1, <3>2
    <2> QED BY <2>1, <2>2
  <1> QED BY <1>1, <1>2

LEMMA TitlePlanned ==
    ASSUME LineFits, NEW title_len \in TitleLens
    PROVE  Planned(0, TitleLines(title_len), 0)
  <1>1. PICK n \in Nat, p \in Nat : n = title_len /\ p = n + 73
    BY LinesAssumption
  <1>2. n + 171 <= buff_len /\ buff_len >= 240
    BY <1>1, LinesAssumption, BuffLenAssumption DEF LineFits
  <1> DEFINE t1 == <<Out>>
             t2 == <<Chr(30), Chr(1), Str(n), Str(19), Date>>
             t3 == <<Str(18), Time, Str(19), Time, Chr(1), Chr(1), Chr(30), Out>>
             t4 == <<Str(150), Out, Str(112), Out, Str(96), Out, Str(86), Out>>
  <1>3. TitleLines(title_len) = t1 \o (t2 \o t3) \o t4
    <2>1. t2 \o t3 = <<Chr(30), Chr(1), Str(n), Str(19), Date, Str(18), Time, Str(19), Time,
                       Chr(1), Chr(1), Chr(30), Out>>
      <3> DEFINE x == <<Chr(30), Chr(1), Str(n), Str(19), Date, Str(18), Time, Str(19), Time,
                        Chr(1), Chr(1), Chr(30), Out>>
      <3>1. Len(x) = 13 /\ Len(t2) = 5 /\ Len(t3) = 8
        OBVIOUS
      <3>2. /\ \A i \in 1 .. 5 : x[i] = t2[i]
            /\ \A i \in 1 .. 8 : x[i + 5] = t3[i]
        OBVIOUS
      <3>3. x \in Seq(Field) /\ t2 \in Seq(Field) /\ t3 \in Seq(Field)
        BY FieldsAreFields
      <3> HIDE DEF x, t2, t3
      <3>4. t2 \o t3 = x
        <4>1. Len(x) = Len(t2) + Len(t3) /\ \A i \in 1 .. Len(t2) : x[i] = t2[i]
          BY <3>1, <3>2
        <4>2. \A i \in 1 .. Len(t3) : x[i + Len(t2)] = t3[i]
          BY <3>1, <3>2
        <4> QED BY <3>3, <4>1, <4>2, CatIs
      <3> QED BY <3>4 DEF x
    <2> QED BY <1>1, <2>1 DEF TitleLines
  <1>4. /\ t1 \in Seq(Field) /\ t2 \in Seq(Field) /\ t3 \in Seq(Field) /\ t4 \in Seq(Field)
        /\ 0 \in Nat
    BY FieldsAreFields
  <1>5. Planned(0, t1, 0)
    <2> DEFINE s == <<Out>>
               P == <<0, 0>>
    <2>1. Len(s) = 1 /\ P \in [1 .. 2 -> Nat]
      OBVIOUS
    <2>2. /\ P[1] = 0 /\ P[2] = 0
      OBVIOUS
    <2>3. \A j \in 1 .. 1 : Goes(P[j], s[j], P[j + 1])
      <3> HIDE DEF P
      <3>1. \A j \in 1 .. 2 : P[j] \in Nat
        BY <2>1
      <3>2. Goes(P[1], Out, P[2])
        BY <2>2, <3>1, Pushes, <1>2, BuffLenAssumption
      <3> QED BY <3>2
    <2> HIDE DEF P, s
    <2>4. 0 <= P[1] /\ P[2] <= 0
      BY <2>2, <1>2, BuffLenAssumption
    <2> QED BY <2>1, <2>3, <2>4 DEF Planned, Goes, s
  <1>6. Planned(0, t2, p)
    <2> DEFINE s == <<Chr(30), Chr(1), Str(n), Str(19), Date>>
               P == <<0, 30, 31, n + 31, n + 50, n + 73>>
    <2>1. Len(s) = 5 /\ P \in [1 .. 6 -> Nat]
      OBVIOUS
    <2>2. /\ P[1] = 0 /\ P[2] = 30 /\ P[3] = 31
         /\ P[4] = n + 31 /\ P[5] = n + 50 /\ P[6] = n + 73
      OBVIOUS
    <2>3. \A j \in 1 .. 5 : Goes(P[j], s[j], P[j + 1])
      <3> HIDE DEF P
      <3>1. \A j \in 1 .. 6 : P[j] \in Nat
        BY <2>1
      <3>2. /\ Goes(P[1], Chr(30), P[2]) /\ Goes(P[2], Chr(1), P[3])
           /\ Goes(P[3], Str(n), P[4])
        BY <2>2, <3>1, Pushes, <1>1, <1>2, BuffLenAssumption
      <3>3. Goes(P[4], Str(19), P[5]) /\ Goes(P[5], Date, P[6])
        BY <2>2, <3>1, Pushes, <1>1, <1>2, BuffLenAssumption
      <3> QED BY <3>2, <3>3
    <2> HIDE DEF P, s
    <2>4. 0 <= P[1] /\ P[6] <= p
      BY <2>2, <1>1, <1>2, BuffLenAssumption
    <2> QED BY <2>1, <2>3, <2>4 DEF Planned, Goes, s
  <1>7. Planned(p, t3, 0)
    <2> DEFINE s == <<Str(18), Time, Str(19), Time, Chr(1), Chr(1),
                          Chr(30), Out>>
               P == <<p, p + 18, p + 32, p + 51, p + 65, p + 66, p + 67,
                          p + 97, 0>>
    <2>1. Len(s) = 8 /\ P \in [1 .. 9 -> Nat]
      OBVIOUS
    <2>2. /\ P[1] = p /\ P[2] = p + 18 /\ P[3] = p + 32
         /\ P[4] = p + 51 /\ P[5] = p + 65 /\ P[6] = p + 66
         /\ P[7] = p + 67 /\ P[8] = p + 97 /\ P[9] = 0
      OBVIOUS
    <2>3. \A j \in 1 .. 8 : Goes(P[j], s[j], P[j + 1])
      <3> HIDE DEF P
      <3>1. \A j \in 1 .. 9 : P[j] \in Nat
        BY <2>1
      <3>2. /\ Goes(P[1], Str(18), P[2]) /\ Goes(P[2], Time, P[3])
           /\ Goes(P[3], Str(19), P[4])
        BY <2>2, <3>1, Pushes, <1>1, <1>2, BuffLenAssumption
      <3>3. /\ Goes(P[4], Time, P[5]) /\ Goes(P[5], Chr(1), P[6])
           /\ Goes(P[6], Chr(1), P[7])
        BY <2>2, <3>1, Pushes, <1>1, <1>2, BuffLenAssumption
      <3>4. Goes(P[7], Chr(30), P[8]) /\ Goes(P[8], Out, P[9])
        BY <2>2, <3>1, Pushes, <1>1, <1>2, BuffLenAssumption
      <3> QED BY <3>2, <3>3, <3>4
    <2> HIDE DEF P, s
    <2>4. p <= P[1] /\ P[9] <= 0
      BY <2>2, <1>1, <1>2, BuffLenAssumption
    <2> QED BY <2>1, <2>3, <2>4 DEF Planned, Goes, s
  <1>8. Planned(0, t4, 0)
    <2> DEFINE s == <<Str(150), Out, Str(112), Out, Str(96), Out, Str(86),
                          Out>>
               P == <<0, 150, 0, 112, 0, 96, 0, 86, 0>>
    <2>1. Len(s) = 8 /\ P \in [1 .. 9 -> Nat]
      OBVIOUS
    <2>2. /\ P[1] = 0 /\ P[2] = 150 /\ P[3] = 0
         /\ P[4] = 112 /\ P[5] = 0 /\ P[6] = 96
         /\ P[7] = 0 /\ P[8] = 86 /\ P[9] = 0
      OBVIOUS
    <2>3. \A j \in 1 .. 8 : Goes(P[j], s[j], P[j + 1])
      <3> HIDE DEF P
      <3>1. \A j \in 1 .. 9 : P[j] \in Nat
        BY <2>1
      <3>2. /\ Goes(P[1], Str(150), P[2]) /\ Goes(P[2], Out, P[3])
           /\ Goes(P[3], Str(112), P[4])
        BY <2>2, <3>1, Pushes, <1>2, BuffLenAssumption
      <3>3. /\ Goes(P[4], Out, P[5]) /\ Goes(P[5], Str(96), P[6])
           /\ Goes(P[6], Out, P[7])
        BY <2>2, <3>1, Pushes, <1>2, BuffLenAssumption
      <3>4. Goes(P[7], Str(86), P[8]) /\ Goes(P[8], Out, P[9])
        BY <2>2, <3>1, Pushes, <1>2, BuffLenAssumption
      <3> QED BY <3>2, <3>3, <3>4
    <2> HIDE DEF P, s
    <2>4. 0 <= P[1] /\ P[9] <= 0
      BY <2>2, <1>2, BuffLenAssumption
    <2> QED BY <2>1, <2>3, <2>4 DEF Planned, Goes, s
  <1> HIDE DEF t1, t2, t3, t4
  <1>9. t2 \o t3 \in Seq(Field) /\ Planned(0, t2 \o t3, 0)
    BY <1>4, <1>6, <1>7, Joined
  <1>10. t1 \o (t2 \o t3) \in Seq(Field) /\ Planned(0, t1 \o (t2 \o t3), 0)
    BY <1>4, <1>5, <1>9, Joined
  <1>11. Planned(0, t1 \o (t2 \o t3) \o t4, 0)
    BY <1>4, <1>8, <1>10, Joined
  <1> QED BY <1>3, <1>11

LEMMA EndPlanned ==
    ASSUME LineFits
    PROVE  Planned(0, EndLines, 0)
  <1>1. buff_len >= 240
    BY LinesAssumption, BuffLenAssumption DEF LineFits
  <1>2. Planned(0, <<Chr(30), Chr(1), Str(7), Date, Chr(1), Chr(30), Out, Out>>, 0)
    <2> DEFINE s == <<Chr(30), Chr(1), Str(7), Date, Chr(1), Chr(30), Out,
                          Out>>
               P == <<0, 30, 31, 38, 61, 62, 92, 0, 0>>
    <2>1. Len(s) = 8 /\ P \in [1 .. 9 -> Nat]
      OBVIOUS
    <2>2. /\ P[1] = 0 /\ P[2] = 30 /\ P[3] = 31
         /\ P[4] = 38 /\ P[5] = 61 /\ P[6] = 62
         /\ P[7] = 92 /\ P[8] = 0 /\ P[9] = 0
      OBVIOUS
    <2>3. \A j \in 1 .. 8 : Goes(P[j], s[j], P[j + 1])
      <3> HIDE DEF P
      <3>1. \A j \in 1 .. 9 : P[j] \in Nat
        BY <2>1
      <3>2. /\ Goes(P[1], Chr(30), P[2]) /\ Goes(P[2], Chr(1), P[3])
           /\ Goes(P[3], Str(7), P[4])
        BY <2>2, <3>1, Pushes, <1>1, BuffLenAssumption
      <3>3. /\ Goes(P[4], Date, P[5]) /\ Goes(P[5], Chr(1), P[6])
           /\ Goes(P[6], Chr(30), P[7])
        BY <2>2, <3>1, Pushes, <1>1, BuffLenAssumption
      <3>4. Goes(P[7], Out, P[8]) /\ Goes(P[8], Out, P[9])
        BY <2>2, <3>1, Pushes, <1>1, BuffLenAssumption
      <3> QED BY <3>2, <3>3, <3>4
    <2> HIDE DEF P, s
    <2>4. 0 <= P[1] /\ P[9] <= 0
      BY <2>2, <1>1, BuffLenAssumption
    <2> QED BY <2>1, <2>3, <2>4 DEF Planned, Goes, s
  <1> QED BY <1>2 DEF EndLines

----------------------------------------------------------------------------
(* Every push of a line has the room it wants                              *)

LEMMA PushedWhole ==
    ASSUME LineFits, huge = FALSE, NEW w, NEW b \in Nat, WholeUpTo(w, b), NEW f \in Field,
           f.op # "out", b + Wanted(f) <= buff_len,
           NEW x \in Pushed(w, f)
    PROVE  WholeUpTo(x, After(b, f))
  <1>0. f.n \in Nat /\ f.op \in Op
    BY DEF Field
  <1>1. CASE f.op = "char"
    <2>1. After(b, f) = b + f.n /\ Wanted(f) = f.n
      BY <1>1 DEF After, Longest, Wanted
    <2> QED BY <1>0, <1>1, <2>1, CharWhole DEF Pushed
  <1>2. CASE f.op = "string"
    <2>1. After(b, f) = b + f.n /\ Wanted(f) = f.n
      BY <1>2 DEF After, Longest, Wanted
    <2> QED BY <1>0, <1>2, <2>1, CharWhole DEF Pushed
  <1>3. CASE f.op = "run"
    <2>1. After(b, f) = b + f.n /\ Wanted(f) = f.n + 1
      BY <1>3 DEF After, Longest, Wanted
    <2>2. b + f.n + 1 <= buff_len
      BY <1>0, <2>1
    <2> QED BY <1>0, <1>3, <2>1, <2>2, RunWhole DEF Pushed
  <1>4. CASE f.op = "number"
    <2>1. Wanted(f) = 31 /\ After(b, f) = b + (IF f.n > 9 THEN f.n ELSE 9)
      BY <1>4 DEF After, Longest, Wanted
    <2>2. f.n \in 0 .. 30
      BY <1>4 DEF Field, kU64MaxCharLen
    <2>3. PICK d \in IdDigits : x = PushNumber(w, d, f.n)
      BY <1>4 DEF Pushed
    <2>4. d \in 1 .. 20 /\ d <= 9
      BY LinesAssumption DEF LineFits
    <2>5. PICK m \in Nat : m = b + (IF d < f.n THEN f.n ELSE d)
      BY <1>0, <2>4
    <2>6. WholeUpTo(x, m)
      BY <2>1, <2>2, <2>3, <2>4, <2>5, NumberWhole
    <2>7. After(b, f) \in Nat /\ m <= After(b, f)
      BY <1>0, <2>1, <2>4, <2>5
    <2> QED BY <2>6, <2>7, WholeFurther
  <1>5. CASE f.op = "count"
    <2>1. Wanted(f) = 49 /\ After(b, f) = b + 21
      BY <1>5 DEF After, Longest, Wanted
    <2>2. PICK c \in Counts : x = PushHumanCount(w, c[1], c[2])
      BY <1>5 DEF Pushed
    <2>3. c[1] \in 1 .. 20 /\ c[2] \in 1 .. 3 /\ c[1] + 4 * c[2] <= 25
      BY LinesAssumption DEF LineFits
    <2> QED BY <2>1, <2>2, <2>3, CountWhole
  <1>6. CASE f.op = "time"
    <2>1. Wanted(f) = 40 /\ After(b, f) = b + 14
      BY <1>6 DEF After, Longest, Wanted
    <2>2. PICK neg \in BOOLEAN, d \in TimeDigits : x = PushHumanTime(w, neg, d)
      BY <1>6 DEF Pushed, Times
    <2>3. d \in 1 .. 8
      BY LinesAssumption DEF LineFits
    <2> QED BY <2>1, <2>2, <2>3, TimeWhole
  <1>7. CASE f.op = "mem"
    <2>1. Wanted(f) = 52 /\ After(b, f) = b + 25
      BY <1>7 DEF After, Longest, Wanted
    <2>2. PICK e \in Sizes : x = PushHumanMem(w, e[1], e[2])
      BY <1>7 DEF Pushed
    <2>3. e[1] \in 1 .. 20 /\ e[2] \in BOOLEAN
      BY LinesAssumption
    <2> QED BY <2>1, <2>2, <2>3, MemWhole
  <1>8. CASE f.op = "date"
    <2>1. Wanted(f) = 50 /\ After(b, f) = b + 23
      BY <1>8 DEF After, Longest, Wanted
    <2> QED BY <1>8, <2>1, DateWhole DEF Pushed
  <1> QED BY <1>0, <1>1, <1>2, <1>3, <1>4, <1>5, <1>6, <1>7, <1>8 DEF Op

LEMMA EntryPlanned ==
    ASSUME LineFits, NEW name_len \in NameLens, NEW depth \in Depths, NEW has, NEW parts,
           name_len + Padding(name_len, depth) <= DescMax,
           NEW s, s = (IF "cpu" \in has THEN CpuLine(name_len, depth, parts) ELSE <<>>)
                      \o (IF "mem" \in has THEN MemLine(name_len, depth) ELSE <<>>)
                      \o (IF "vm" \in has THEN VmLine(name_len, depth) ELSE <<>>)
                      \o (IF "user" \in has THEN UserLine(name_len, depth) ELSE <<>>)
                      \o DeepLine(depth)
    PROVE  Planned(0, s, 0)
  <1>1. name_len \in Nat /\ depth \in Nat /\ 0 \in Nat
    BY LinesAssumption
  <1> DEFINE c == IF "cpu" \in has THEN CpuLine(name_len, depth, parts) ELSE <<>>
             m == IF "mem" \in has THEN MemLine(name_len, depth) ELSE <<>>
             v == IF "vm" \in has THEN VmLine(name_len, depth) ELSE <<>>
             u == IF "user" \in has THEN UserLine(name_len, depth) ELSE <<>>
             e == DeepLine(depth)
  <1>2. Planned(0, <<>>, 0) /\ <<>> \in Seq(Field)
    BY PlannedNothing
  <1>3. c \in Seq(Field) /\ Planned(0, c, 0)
    BY <1>1, <1>2, LineFields, CpuPlanned
  <1>4. m \in Seq(Field) /\ Planned(0, m, 0)
    BY <1>1, <1>2, LineFields, MemPlanned
  <1>5. v \in Seq(Field) /\ Planned(0, v, 0)
    BY <1>1, <1>2, LineFields, VmPlanned
  <1>6. u \in Seq(Field) /\ Planned(0, u, 0)
    BY <1>1, <1>2, LineFields, UserPlanned
  <1>7. e \in Seq(Field) /\ Planned(0, e, 0)
    BY <1>1, LineFields, DeepPlanned
  <1>8. s = c \o m \o v \o u \o e
    OBVIOUS
  <1> HIDE DEF c, m, v, u, e
  <1>9. c \o m \in Seq(Field) /\ Planned(0, c \o m, 0)
    BY <1>1, <1>3, <1>4, Joined
  <1>10. c \o m \o v \in Seq(Field) /\ Planned(0, c \o m \o v, 0)
    BY <1>1, <1>5, <1>9, Joined
  <1>11. c \o m \o v \o u \in Seq(Field) /\ Planned(0, c \o m \o v \o u, 0)
    BY <1>1, <1>6, <1>10, Joined
  <1>12. Planned(0, c \o m \o v \o u \o e, 0)
    BY <1>1, <1>7, <1>11, Joined
  <1> QED BY <1>8, <1>12

\* In a call without huge values all lines were whole, so is the line so far,
\* and what is left to push is planned from the cursor on.
AllPlanned ==
    huge = FALSE =>
        /\ whole = TRUE /\ rp.whole = TRUE
        /\ \E a \in Nat, b \in Nat : rp.offset <= a /\ Planned(a, todo, b)

LEMMA BeginPlanned ==
    ASSUME NEW fields, NEW h \in BOOLEAN, Begin(fields, h), h = FALSE => Planned(0, fields, 0)
    PROVE  AllPlanned'
  <1> SUFFICES ASSUME h = FALSE
               PROVE  /\ whole' = TRUE /\ rp'.whole = TRUE
                      /\ \E a \in Nat, b \in Nat : rp'.offset <= a /\ Planned(a, todo', b)
    BY DEF AllPlanned, Begin
  <1>1. whole' = TRUE /\ rp'.whole = TRUE /\ rp'.offset = 0 /\ todo' = fields
    BY DEF Begin, Empty
  <1>2. 0 \in Nat /\ 0 <= 0
    OBVIOUS
  <1> QED BY <1>1, <1>2

LEMMA NextPlanned == LineFits /\ LinesIInv /\ AllPlanned /\ [LineNext]_lineVars => AllPlanned'
  <1> SUFFICES ASSUME LineFits, LinesIInv, AllPlanned, [LineNext]_lineVars
               PROVE  AllPlanned'
    OBVIOUS
  <1>1. CASE Title
    <2>1. CASE \E title_len \in TitleLens : Begin(TitleLines(title_len), FALSE)
      BY <2>1, TitlePlanned, BeginPlanned
    <2>2. CASE \E title_len \in TitleLens \cup HugeTitleLens : Begin(TitleLines(title_len), TRUE)
      BY <2>2, BeginPlanned
    <2> QED BY <1>1, <2>1, <2>2 DEF Title
  <1>2. CASE Part
    <2>1. buff_len > 4 /\ 1 < buff_len
      BY LinesAssumption, BuffLenAssumption DEF LineFits
    <2>2. Planned(3, <<Str(1)>>, 4)
      <3>1. Goes(3, Str(1), 4)
        BY <2>1, Pushes, BuffLenAssumption
      <3>2. Str(1) \in Field
        BY FieldsAreFields
      <3> QED BY <3>1, <3>2, PlannedOne DEF Goes
    <2>3. rp.offset <= 3 /\ 3 \in Nat /\ 4 \in Nat
      BY <1>2 DEF Part, LinesIInv, Good
    <2>4. rp' = rp /\ todo' = <<Str(1)>> /\ huge' = huge /\ whole' = whole
      BY <1>2 DEF Part
    <2> QED BY <2>2, <2>3, <2>4 DEF AllPlanned
  <1>3. CASE Entry
    <2>1. PICK name_len \in NameLens, depth \in Depths, has \in Holdings,
               parts \in SUBSET {"max", "sm", "hl"}, h \in BOOLEAN :
            /\ name_len + Padding(name_len, depth) <= DescMax
            /\ Begin((IF "cpu" \in has THEN CpuLine(name_len, depth, parts) ELSE <<>>)
                     \o (IF "mem" \in has THEN MemLine(name_len, depth) ELSE <<>>)
                     \o (IF "vm" \in has THEN VmLine(name_len, depth) ELSE <<>>)
                     \o (IF "user" \in has THEN UserLine(name_len, depth) ELSE <<>>)
                     \o DeepLine(depth), h)
      BY <1>3 DEF Entry
    <2>2. PICK s : s = (IF "cpu" \in has THEN CpuLine(name_len, depth, parts) ELSE <<>>)
                       \o (IF "mem" \in has THEN MemLine(name_len, depth) ELSE <<>>)
                       \o (IF "vm" \in has THEN VmLine(name_len, depth) ELSE <<>>)
                       \o (IF "user" \in has THEN UserLine(name_len, depth) ELSE <<>>)
                       \o DeepLine(depth)
      OBVIOUS
    <2>3. Planned(0, s, 0)
      BY <2>1, <2>2, EntryPlanned
    <2>4. Begin(s, h)
      BY <2>1, <2>2
    <2> QED BY <2>3, <2>4, BeginPlanned
  <1>4. CASE End
    BY <1>4, EndPlanned, BeginPlanned DEF End
  <1>5. CASE Push \/ OutputAndClean
    <2> SUFFICES ASSUME huge = FALSE
                 PROVE  /\ whole' = TRUE /\ rp'.whole = TRUE
                        /\ \E a \in Nat, b \in Nat : rp'.offset <= a /\ Planned(a, todo', b)
      BY <1>5 DEF AllPlanned, Push, OutputAndClean
    <2>1. PICK a \in Nat, b \in Nat : rp.offset <= a /\ Planned(a, todo, b)
      BY DEF AllPlanned
    <2>2. whole = TRUE /\ WholeUpTo(rp, a) /\ todo \in Seq(Field) /\ todo # <<>>
      BY <1>5, <2>1 DEF AllPlanned, LinesIInv, WholeUpTo, Push, OutputAndClean
    <2>3. PICK p \in Nat, q \in Nat :
              /\ a <= p /\ p + Wanted(Head(todo)) <= buff_len
              /\ After(p, Head(todo)) <= q /\ Planned(q, Tail(todo), b)
      BY <2>1, <2>2, PlannedNext
    <2>4. PICK f \in Field : f = Head(todo)
      BY <2>2
    <2>5. WholeUpTo(rp, p)
      BY <2>2, <2>3, WholeFurther
    <2>6. CASE Push
      <3>1. f.op # "out" /\ rp' \in Pushed(rp, f) /\ todo' = Tail(todo) /\ whole' = TRUE
        BY <2>2, <2>4, <2>6 DEF Push
      <3>2. WholeUpTo(rp', After(p, f))
        BY <2>3, <2>4, <2>5, <3>1, PushedWhole
      <3>3. After(p, f) \in Nat
        BY AfterIsNat
      <3>4. WholeUpTo(rp', q)
        BY <2>3, <2>4, <3>2, <3>3, WholeFurther
      <3> QED BY <2>3, <3>1, <3>4 DEF WholeUpTo
    <2>7. CASE OutputAndClean
      <3>1. f.op = "out" /\ f.n \in Nat /\ todo' = Tail(todo) /\ rp' = Empty
            /\ whole' = (whole /\ rp.whole /\ ClosedAt(rp) = rp.offset)
        BY <2>4, <2>7 DEF OutputAndClean, Cleaned, Field
      <3>2. Wanted(f) = f.n + 1
        BY <3>1 DEF Wanted
      <3>3. ClosedAt(rp) = rp.offset
        BY <2>3, <2>4, <2>5, <3>1, <3>2, BuffLenAssumption DEF WholeUpTo, Good, ClosedAt
      <3>4. whole' = TRUE
        BY <2>2, <2>5, <3>1, <3>3 DEF WholeUpTo
      <3>5. rp'.whole = TRUE /\ rp'.offset <= q
        BY <3>1 DEF Empty
      <3> QED BY <2>3, <3>1, <3>4, <3>5
    <2> QED BY <1>5, <2>6, <2>7
  <1>6. CASE UNCHANGED lineVars
    BY <1>6 DEF AllPlanned, lineVars
  <1> QED BY <1>1, <1>2, <1>3, <1>4, <1>5, <1>6 DEF LineNext

\* Names of up to kProfDescMaxSize characters at any depth, ids of up to nine
\* digits, titles the buffer leaves room for, any count and size, and times
\* below 10^8 s: every line of a report reaches output_ whole when the buffer has
\* the size LineFits asks for, whatever was printed before.  With kProfMaxDepth
\* = 5 and kProfDescMaxSize = 100 that is the 350 bytes of LINE_BUFF_SIZE.
THEOREM LinesAreWhole == ASSUME LineFits PROVE LineSpec => []LinesWhole
  <1>1. LineInit => AllPlanned
    <2> SUFFICES ASSUME LineInit
                 PROVE  /\ whole = TRUE /\ rp.whole = TRUE
                        /\ \E a \in Nat, b \in Nat : rp.offset <= a /\ Planned(a, todo, b)
      BY DEF AllPlanned
    <2>1. whole = TRUE /\ rp.whole = TRUE /\ rp.offset = 0 /\ todo = <<>>
      BY DEF LineInit, Empty
    <2>2. Planned(0, <<>>, 0) /\ 0 \in Nat /\ 0 <= 0
      BY PlannedNothing
    <2> QED BY <2>1, <2>2
  <1>2. LinesIInv /\ AllPlanned /\ [LineNext]_lineVars => AllPlanned'
    BY NextPlanned
  <1>3. LinesIInv /\ AllPlanned => LinesWhole
    BY DEF LinesIInv, AllPlanned, LinesWhole
  <1> QED BY <1>1, <1>2, <1>3, LinesInductive, PTL DEF LineSpec

=============================================================================
