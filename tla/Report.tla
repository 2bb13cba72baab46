------------------------------- MODULE Report -------------------------------
(***************************************************************************)
(* The line writer Report (zprof_report.h): a cursor offset_ into a buffer *)
(* of buff_len_ bytes that somebody else owns, and the Push operations,    *)
(* each with its own idea of when there is room.  No operation checks that *)
(* offset_ <= buff_len_; PushString and PushHumanTime would write outside  *)
(* the buffer if it did not hold.                                          *)
(*                                                                         *)
(* What is written is abstracted to how much: a string is its length, a    *)
(* number its count of decimal digits.  Every operation writes the bytes   *)
(* from the old to the new offset.  A writer is a record of its cursor and *)
(* of whether everything pushed so far was written in full.                *)
(***************************************************************************)
EXTENDS Integers

CONSTANT buff_len    \* buff_len_

ASSUME BuffLenAssumption == buff_len \in Nat \ {0}

\* Room a number asks for, whatever its length.
kU64MaxCharLen == 30

\* Longest run that PushIndent and PushHyphen write.
lut_size == 50

Writer == [offset : Nat, whole : BOOLEAN]

Empty == [offset |-> 0, whole |-> TRUE]

\* n more bytes; part of what was to be pushed; nothing of it.
Wrote(w, n) == [w EXCEPT !.offset = @ + n]

Cut(w, n) == [offset |-> w.offset + n, whole |-> FALSE]

Dropped(w) == Cut(w, 0)

\* buff_len_ - offset_ (unsigned in the code: offset_ <= buff_len_).
Room(w) == buff_len - w.offset

----------------------------------------------------------------------------
(* The operations                                                          *)

\* PushChar(ch, repeat)
PushChar(w, repeat) ==
    IF repeat <= Room(w) THEN Wrote(w, repeat) ELSE Cut(w, Room(w))

\* PushString(str, size)
PushString(w, size) ==
    IF Room(w) >= size THEN Wrote(w, size) ELSE Cut(w, Room(w))

\* Mutant: only the digits are asked for, not the point and the unit.
HasRoomForDigits(w) == buff_len > w.offset + 10

\* The check at the head of PushNumber and PushHuman*.
HasRoom(w) == buff_len > w.offset + kU64MaxCharLen

\* PushNumber(unsigned, wide) of a number with d digits.
PushNumber(w, d, wide) ==
    IF ~HasRoom(w) THEN Dropped(w) ELSE Wrote(w, IF d < wide THEN wide ELSE d)

\* PushNumber(signed, wide): the sign is written before PushNumber(unsigned)
\* looks for room again.
PushSigned(w, neg, d, wide) ==
    IF ~HasRoom(w) THEN Dropped(w)
    ELSE IF neg
    THEN PushNumber(Wrote(w, 1), d, IF wide > 1 THEN wide - 1 ELSE 0)
    ELSE PushNumber(w, d, wide)

\* PushHumanCount(count) in groups of digits, the first of d digits and the
\* others of three.
PushHumanCount(w, d, groups) ==
    LET first  == PushNumber(w, d, 0)
        second == PushNumber(PushChar(first, 1), 3, 3)
        third  == PushNumber(PushChar(second, 1), 3, 3)
    IN  IF ~HasRoom(w) THEN Dropped(w)
        ELSE IF groups = 1 THEN first ELSE IF groups = 2 THEN second ELSE third

\* PushHumanTime(ns) of d digits before the point; the point and the unit are
\* written without a check of their own.
PushHumanTime(w, neg, d) ==
    IF ~HasRoom(w) THEN Dropped(w)
    ELSE IF neg THEN PushString(w, 7)
    ELSE Wrote(PushNumber(Wrote(PushSigned(w, FALSE, d, 0), 1), 3, 3), 2)

\* PushHumanMem(bytes): d digits and, from 1K on, a fraction; one unit letter.
PushHumanMem(w, d, frac) ==
    IF ~HasRoom(w) THEN Dropped(w)
    ELSE IF frac
    THEN PushChar(PushNumber(PushChar(PushNumber(w, d, 0), 1), 3, 3), 1)
    ELSE PushChar(PushNumber(w, d, 0), 1)

\* PushIndent(count), PushHyphen(count): at most lut_size, all or nothing.
PushRun(w, count) ==
    LET n == IF count > lut_size THEN lut_size ELSE count
    IN  IF n <= 0 THEN w
        ELSE IF w.offset + n >= buff_len THEN Dropped(w) ELSE Wrote(w, n)

\* PushDate(date_ms): [yyyymmdd hh:mm:ss.mmm].
PushDate(w) ==
    LET day  == PushNumber(PushNumber(PushNumber(PushChar(w, 1), 4, 4), 2, 2), 2, 2)
        min  == PushNumber(PushChar(PushNumber(PushChar(day, 1), 2, 2), 1), 2, 2)
        full == PushNumber(PushChar(PushNumber(PushChar(min, 1), 2, 2), 1), 3, 3)
    IN  PushChar(full, 1)

\* ClosingString(): the index of the terminating zero, over the last byte when
\* the buffer is full.
ClosedAt(w) == IF w.offset >= buff_len THEN buff_len - 1 ELSE w.offset

=============================================================================
