------------------------------- MODULE FnFile -------------------------------
(***************************************************************************)
(* The file device of fn-log (fn_log.h): EnterProcOutFileDevice,           *)
(* OpenFileDevice and FileHandler.  One device gets logs one after the     *)
(* other; their time stamps need not be in order, the disk may refuse to   *)
(* open or to write, the configuration may change between two logs and the *)
(* process may be started again, with or without its shared memory.        *)
(*                                                                         *)
(* A log is its number and has one or two units; a file is the sequence of *)
(* its logs.  The name of a file may contain the day; name.1, name.2 ...   *)
(* are the depths 1, 2 ... of its name.                                    *)
(***************************************************************************)
EXTENDS Integers, Sequences, FiniteSets, SequencesExt

CONSTANTS HOUR, DAY,        \* seconds of an hour and a day
          RETRY,            \* seconds after a failed open without another
          FileConfigs,      \* limit, rollback, daily, hourly, stuff_up,
                            \* dated (the name has the day), too_long (path)
          MaxDepth,         \* above every rollback
          MaxLogs, MaxTime, MaxEvents   \* bounds

ASSUME FileAssumption ==
    /\ {HOUR, DAY, RETRY, MaxLogs, MaxTime, MaxEvents, MaxDepth} \subseteq Nat
    /\ HOUR > 0 /\ DAY > 0 /\ DAY % HOUR = 0
    /\ RETRY > 0 /\ RETRY < MaxTime
    /\ FileConfigs \subseteq [limit : Nat, rollback : Nat, daily : BOOLEAN, hourly : BOOLEAN,
                              stuff_up : BOOLEAN, dated : BOOLEAN, too_long : BOOLEAN]
    /\ \A f \in FileConfigs : f.rollback < MaxDepth

VARIABLES fcfg,     \* config_fields_ and names of the device
          disk,     \* name |-> depth |-> file, or Gone
          writer,   \* the name the FileHandler has open, or Closed
          dlog,     \* device_log_fields_
          clock, sent,
          written,  \* history: the logs fwrite has taken
          removed,  \* history: name |-> the logs of files rollback removed
          dropped,  \* history: time of the last log if it was dropped, or 0
          changed,  \* history: the configuration was changed
          events    \* history: changes and restarts

dvars == <<fcfg, disk, writer, dlog, clock, sent, written, removed, dropped, changed, events>>

Closed == -1
Gone == <<0>>       \* no file; no log has the number 0
FileNames == 0 .. MaxTime \div DAY
Depths == 0 .. MaxDepth
LenOf(log) == 1 + (log % 2)
FileSize(file) == Len(file) + Cardinality({i \in DOMAIN file : file[i] % 2 = 1})
LogsIn(file) == ToSet(file) \ {0}

DayOf(ts) == (ts \div DAY) * DAY
HourOf(ts) == (ts \div HOUR) * HOUR
NameOf(f, ts) == IF f.dated THEN ts \div DAY ELSE 0

Log0 == [size |-> 0, day |-> 0, hour |-> 0, try |-> 0, error |-> 0, lines |-> 0]

FileInit ==
    /\ fcfg \in FileConfigs
    /\ disk = [n \in FileNames |-> [d \in Depths |-> Gone]]
    /\ writer = Closed /\ dlog = Log0 /\ clock = RETRY + 1 /\ sent = 0
    /\ written = {} /\ removed = [n \in FileNames |-> {}]
    /\ dropped = 0 /\ changed = FALSE /\ events = 0

-----------------------------------------------------------------------------
(* FileHandler::rollback(path, 1, max): every file moves one deeper, up to *)
(* the first depth that is free; without one the file at max is removed.   *)

FirstFree(files, max) ==
    LET free == {d \in 0 .. max : files[d] = Gone} IN
    IF free = {} THEN max + 1 ELSE CHOOSE d \in free : \A e \in free : d <= e

\* Mutant: the files are renamed from the newest to the oldest.
RollNewestFirst(files, max) ==
    IF files[0] = Gone THEN files ELSE [files EXCEPT ![0] = Gone, ![1] = files[0]]

Rollback(files, max) ==
    LET last == FirstFree(files, max) IN
    [d \in Depths |-> CASE d = 0 -> Gone
                        [] d > 0 /\ d <= last /\ d <= max -> files[d - 1]
                        [] OTHER -> files[d]]
RolledOut(files, max) ==
    IF FirstFree(files, max) > max THEN LogsIn(files[max]) ELSE {}

-----------------------------------------------------------------------------
(* OpenFileDevice *)

LimitOut(f, l, len) == f.limit > 0 /\ f.rollback > 0 /\ l.size + len > f.limit

(* Daily goes before hourly *)
TimeOut(f, l, ts) ==
    CASE f.daily -> ts < l.day \/ ts >= l.day + DAY
      [] ~f.daily /\ f.hourly -> ts < l.hour \/ ts >= l.hour + HOUR
      [] OTHER -> FALSE

\* Mutant: the size starts at zero for a file that is continued.
OpenedEmpty(l, ts, file) ==
    [l EXCEPT !.error = 0, !.try = 0, !.day = DayOf(ts), !.hour = HourOf(ts), !.size = 0]
\* Mutant: the time of the last failure stays.
OpenedTry(l, ts, file) ==
    [l EXCEPT !.error = 0, !.day = DayOf(ts), !.hour = HourOf(ts), !.size = FileSize(file)]
Opened(l, ts, file) ==
    [l EXCEPT !.error = 0, !.try = 0, !.day = DayOf(ts), !.hour = HourOf(ts),
              !.size = FileSize(file)]

(* The device after OpenFileDevice for a log of this time and length; ok:  *)
(* the disk lets the file be opened.                                       *)
OpenFileDevice(ts, len, ok) ==
    LET f == fcfg
        limit_out == LimitOut(f, dlog, len)
        close == limit_out \/ TimeOut(f, dlog, ts)
        l == IF close THEN [dlog EXCEPT !.size = 0] ELSE dlog
        n == NameOf(f, ts)
        roll == (f.rollback > 0 \/ f.limit > 0) /\ (~f.stuff_up \/ limit_out)
        max == IF f.rollback > 0 THEN f.rollback ELSE 1
        rolled == IF roll THEN [disk EXCEPT ![n] = Rollback(@, max)] ELSE disk
        out == IF roll THEN RolledOut(disk[n], max) ELSE {}
        file == IF rolled[n][0] = Gone THEN <<>> ELSE rolled[n][0]
    IN CASE writer # Closed /\ ~close ->
              [disk |-> disk, writer |-> writer, dlog |-> l, n |-> n, out |-> {}]
         [] (writer = Closed \/ close) /\ f.too_long ->
              [disk |-> disk, writer |-> Closed, n |-> n, out |-> {},
               dlog |-> [l EXCEPT !.error = 1, !.try = ts]]
         [] (writer = Closed \/ close) /\ ~f.too_long /\ ~ok ->
              [disk |-> rolled, writer |-> Closed, n |-> n, out |-> out,
               dlog |-> [l EXCEPT !.error = 2, !.try = ts]]
         [] OTHER ->
              [disk |-> [rolled EXCEPT ![n][0] = file], writer |-> n, n |-> n, out |-> out,
               dlog |-> Opened(l, ts, file)]

-----------------------------------------------------------------------------
(* The steps *)

(* EnterProcOutFileDevice within RETRY of a failed open: nothing is done *)
SkipLog(ts) ==
    /\ sent < MaxLogs /\ writer = Closed /\ dlog.try + RETRY > ts
    /\ sent' = sent + 1 /\ dropped' = ts
    /\ UNCHANGED <<fcfg, disk, writer, dlog, clock, written, removed, changed, events>>

(* EnterProcOutFileDevice; a write that fails closes the file and is       *)
(* counted like any other.                                                 *)
WriteLog(ts, can_open, can_write) ==
    LET log == sent + 1
        o == OpenFileDevice(ts, LenOf(log), can_open)
        taken == o.writer # Closed /\ can_write
    IN /\ sent < MaxLogs /\ ~(writer = Closed /\ dlog.try + RETRY > ts)
       /\ sent' = log
       /\ disk' = IF taken THEN [o.disk EXCEPT ![o.writer][0] = Append(@, log)] ELSE o.disk
       /\ writer' = IF taken THEN o.writer ELSE Closed
       /\ dlog' = IF o.writer = Closed THEN o.dlog
                  ELSE [o.dlog EXCEPT !.size = @ + LenOf(log), !.lines = @ + 1]
       /\ written' = IF taken THEN written \cup {log} ELSE written
       /\ removed' = [removed EXCEPT ![o.n] = @ \cup o.out]
       /\ dropped' = IF o.writer = Closed THEN ts ELSE 0
       /\ UNCHANGED <<fcfg, clock, changed, events>>

Tick ==
    /\ clock < MaxTime /\ clock' = clock + 1
    /\ UNCHANGED <<fcfg, disk, writer, dlog, sent, written, removed, dropped, changed, events>>

(* HotUpdateLogger or SetDeviceConfig *)
Reconfigure ==
    /\ events < MaxEvents /\ events' = events + 1
    /\ fcfg' \in {f \in FileConfigs : f.dated = fcfg.dated /\ f.too_long = fcfg.too_long}
    /\ changed' = TRUE
    /\ UNCHANGED <<disk, writer, dlog, clock, sent, written, removed, dropped>>

(* StopLogger or a crash, and a start with the device's log fields or      *)
(* without them.                                                           *)
Restart(kept) ==
    /\ events < MaxEvents /\ events' = events + 1
    /\ writer' = Closed /\ dropped' = 0
    /\ dlog' = IF kept THEN dlog ELSE Log0
    /\ UNCHANGED <<fcfg, disk, clock, sent, written, removed, changed>>

FileNext ==
    \/ \E ts \in {clock - 1, clock} :
         SkipLog(ts) \/ \E can_open, can_write \in BOOLEAN : WriteLog(ts, can_open, can_write)
    \/ Tick \/ Reconfigure
    \/ \E kept \in BOOLEAN : Restart(kept)

FileSpec == FileInit /\ [][FileNext]_dvars

-----------------------------------------------------------------------------
(* Properties *)

Logs(n) == UNION {LogsIn(disk[n][d]) : d \in Depths}
InOrder(files) ==
    /\ \A d \in Depths : \A i, j \in DOMAIN files[d] : i < j => files[d][i] < files[d][j]
    /\ \A d, e \in Depths : d < e =>
         \A older \in LogsIn(files[e]), newer \in LogsIn(files[d]) : older < newer

(* Every log that was written is in exactly one file or in one rollback    *)
(* removed, and the files of a name, from the deepest to the current one,  *)
(* hold its logs in the order they were written.                           *)
FilesKept ==
    /\ UNION {Logs(n) \cup removed[n] : n \in FileNames} = written
    /\ \A n \in FileNames : InOrder(disk[n])
    /\ \A n, m \in FileNames : n # m => Logs(n) \cap Logs(m) = {}

(* Rollback removes the oldest logs of a name and no others.               *)
OldestRemoved ==
    ~changed => \A n \in FileNames : \A r \in removed[n], k \in Logs(n) : r < k

(* While a file is open, the size the device goes by is its size.          *)
SizeKnown == writer # Closed => dlog.size = FileSize(disk[writer][0])

(* A file with a limit and rollback is within the limit, or has one log;   *)
(* with stuff_up a file that is continued after a restart may exceed it.   *)
LimitKept ==
    ~changed /\ ~fcfg.stuff_up /\ fcfg.limit > 0 /\ fcfg.rollback > 0 =>
      \A n \in FileNames, d \in Depths :
        FileSize(disk[n][d]) <= fcfg.limit \/ Len(disk[n][d]) = 1

(* A log is dropped only for an open that failed less than RETRY before    *)
(* it, never after one that succeeded.                                     *)
DropsExplained == dropped # 0 => dlog.error # 0 /\ dlog.try + RETRY > dropped

(* What rollback does to the files, failed opens and restarts included:    *)
(* nothing written is lost but the oldest logs of a name.                  *)
FilesSound == FilesKept /\ OldestRemoved

(* The size the device counts is the file's, and so the limit holds.       *)
SizesSound == SizeKnown /\ LimitKept

=============================================================================
