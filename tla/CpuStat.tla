------------------------------ MODULE CpuStat ------------------------------
(***************************************************************************)
(* The cpu statistics of one registered entry (TscInfo cpu_[idx], its      *)
(* timer_[idx]): the six RecordCpu functions, RecordTimer and the reset.   *)
(* PROF_RECORD_CPU_WRAP and the RAII records reach the six through         *)
(* ProfRecordWrap, which picks one by level and by whether count > 1.      *)
(*                                                                         *)
(* Integers are unbounded here; the code's are 64 bits of clock ticks.     *)
(***************************************************************************)
EXTENDS Integers

CONSTANTS
    LLONG_MAX,     \* min_u of an entry without records
    Ticks,         \* what single records cost; negative if the clock went back
    Batches,       \* <<count, ticks>> of counted records
    Levels,        \* record levels in use: "normal", "fast", "full"
    Stamps,        \* stamps given to RecordTimer
    MaxRecords     \* bound: records since the last reset

ASSUME CpuStatAssumption ==
    /\ LLONG_MAX \in Nat
    /\ Ticks \subseteq Int /\ \A t \in Ticks : t < LLONG_MAX
    /\ Batches \subseteq (Nat \ {0}) \X Nat /\ \A b \in Batches : b[2] < LLONG_MAX
    /\ Levels \subseteq {"normal", "fast", "full"}
    /\ Stamps \subseteq Nat \ {0}
    /\ \A s, t \in Stamps : t - s < LLONG_MAX
    /\ MaxRecords \in Nat

VARIABLES
    cpu,       \* cpu_[idx]
    last,      \* timer_[idx].last, 0: not armed
    first,     \* history: the stamp that armed the timer
    direct,    \* history: count and total of the records that no timer made
    kinds      \* history: were there counted ("bat") and "fast" records?

vars == <<cpu, last, first, direct, kinds>>

Tsc == [c : Nat, sum : Int, dv : Nat, sm : Int, h_sm : Int, l_sm : Int,
        max_u : Int, min_u : Int, t_u : Int]

\* ResetCpu
NoCpu == [c |-> 0, sum |-> 0, dv |-> 0, sm |-> 0, h_sm |-> 0, l_sm |-> 0,
          max_u |-> 0, min_u |-> LLONG_MAX, t_u |-> 0]

\* Division of the code's integers, towards zero.
Quot(a, b) == IF a >= 0 THEN a \div b ELSE -((-a) \div b)

Abs(a) == IF a < 0 THEN -a ELSE a

\* Mutant: the weights do not add up to 16.
SmoothHeavy(s, t) == IF s = 0 THEN t ELSE (s * 12 + t * 5) \div 16

\* SMOOTH_CYCLES_WITH_INIT
Smooth(s, t) == IF s = 0 THEN t ELSE (s * 12 + t * 4) \div 16

\* c, sum and t_u, which every record adds to.
Counted(s, c, t) == [s EXCEPT !.c = @ + c, !.sum = @ + t, !.t_u = @ + t]

\* Mutant: the smallest value is looked for among the totals.
RangedTotal(s, t, dis) ==
    [s EXCEPT !.max_u = IF @ < dis THEN dis ELSE @, !.min_u = IF @ < t THEN @ ELSE t]

\* max_u and min_u, from the value of one hit.
Ranged(s, t, dis) ==
    [s EXCEPT !.max_u = IF @ < dis THEN dis ELSE @, !.min_u = IF @ < dis THEN @ ELSE dis]

\* RecordCpu(idx, ticks)
Normal(s, t) ==
    LET n == Ranged(Counted(s, 1, t), t, t)
        sm == Smooth(s.sm, t)
    IN  [n EXCEPT !.sm = sm, !.dv = @ + Abs(t - sm)]

\* RecordCpu(idx, c, ticks): smooths the total, not the value of one hit.
NormalBat(s, c, t) ==
    LET dis == Quot(t, c)
        n == Ranged(Counted(s, c, t), t, dis)
    IN  [n EXCEPT !.sm = Smooth(@, t), !.dv = @ + Abs(dis - Quot(n.sum, n.c))]

\* RecordCpuNoSM(idx, ticks), RecordCpuNoSM(idx, count, ticks)
Fast(s, c, t) == [Counted(s, c, t) EXCEPT !.sm = Quot(t, c)]

\* RecordCpuFull(idx, ticks)
Full(s, t) ==
    LET n == Ranged(Counted(s, 1, t), t, t)
        avg == Quot(n.sum, n.c)
        sm == Smooth(s.sm, t)
    IN  [n EXCEPT !.sm = sm, !.dv = @ + Abs(t - sm),
                  !.h_sm = IF t >= avg THEN Smooth(@, t) ELSE @,
                  !.l_sm = IF t > avg THEN @ ELSE Smooth(@, t)]

\* RecordCpuFull(idx, c, ticks): a value equal to the average is low only.
FullBat(s, c, t) ==
    LET dis == Quot(t, c)
        n == Ranged(Counted(s, c, t), t, dis)
        avg == Quot(n.sum, n.c)
        sm == Smooth(s.sm, t)
    IN  [n EXCEPT !.sm = sm, !.dv = @ + Abs(dis - sm),
                  !.h_sm = IF dis > avg THEN Smooth(@, dis) ELSE @,
                  !.l_sm = IF dis > avg THEN @ ELSE Smooth(@, dis)]

\* ProfRecordWrap<kIsBat, kLevel>
Wrap(s, bat, level, c, t) ==
    CASE level = "normal" /\ bat -> NormalBat(s, c, t)
      [] level = "normal" /\ ~bat -> Normal(s, t)
      [] level = "fast" /\ bat -> Fast(s, c, t)
      [] level = "fast" /\ ~bat -> Fast(s, 1, t)
      [] level = "full" /\ bat -> FullBat(s, c, t)
      [] level = "full" /\ ~bat -> Full(s, t)

----------------------------------------------------------------------------

Init ==
    /\ cpu = NoCpu
    /\ last = 0
    /\ first = 0
    /\ direct = [c |-> 0, sum |-> 0]
    /\ kinds = {}

\* One hit.
RecordOne(level, t) ==
    /\ cpu.c < MaxRecords
    /\ cpu' = Wrap(cpu, FALSE, level, 1, t)
    /\ direct' = [c |-> direct.c + 1, sum |-> direct.sum + t]
    /\ kinds' = kinds \union ({level} \intersect {"fast"})
    /\ UNCHANGED <<last, first>>

\* c hits at once.
RecordBat(level, c, t) ==
    /\ cpu.c < MaxRecords
    /\ cpu' = Wrap(cpu, TRUE, level, c, t)
    /\ direct' = [c |-> direct.c + c, sum |-> direct.sum + t]
    /\ kinds' = kinds \union ({level, "bat"} \intersect {"fast", "bat"})
    /\ UNCHANGED <<last, first>>

\* Mutant: the first stamp is recorded too.
TimedAlways(stamp) == FullBat(cpu, 1, stamp - last)

\* The cpu record of a timer's stamp; the first stamp only arms it.
Timed(stamp) == IF last = 0 THEN cpu ELSE FullBat(cpu, 1, stamp - last)

RecordTimer(stamp) ==
    /\ cpu.c < MaxRecords
    /\ cpu' = Timed(stamp)
    /\ last' = stamp
    /\ first' = IF last = 0 THEN stamp ELSE first
    /\ UNCHANGED <<direct, kinds>>

\* ResetNode, of which ResetCpu and ResetTimer matter here.
ResetNode ==
    /\ cpu' = NoCpu
    /\ last' = 0
    /\ first' = 0
    /\ direct' = [c |-> 0, sum |-> 0]
    /\ kinds' = {}

Next ==
    \/ \E level \in Levels, t \in Ticks : RecordOne(level, t)
    \/ \E level \in Levels, b \in Batches : RecordBat(level, b[1], b[2])
    \/ \E stamp \in Stamps : RecordTimer(stamp)
    \/ ResetNode

Spec == Init /\ [][Next]_vars

----------------------------------------------------------------------------
(* Properties                                                              *)

\* Every variable keeps its type; the deviation only ever grows from 0.
TypeOK ==
    /\ cpu \in Tsc
    /\ last \in Nat /\ first \in Nat
    /\ direct \in [c : Nat, sum : Int]
    /\ kinds \subseteq {"bat", "fast"}

Within(x) == cpu.min_u <= x /\ x <= cpu.max_u

\* With single records of level normal or full and with timers, what the report
\* prints as sm lies between min and max, and so do the two water levels once
\* they are set: smoothing, its rounding and its restart at 0 never leave the
\* range.  (A counted record smooths its total, a fast one keeps no range.)
SmoothInRange ==
    cpu.c > 0 /\ kinds = {} => /\ Within(cpu.sm)
                               /\ cpu.h_sm = 0 \/ Within(cpu.h_sm)
                               /\ cpu.l_sm = 0 \/ Within(cpu.l_sm)

\* The average that the report computes lies between the min and the max it
\* prints, however single and counted records and timers are mixed, as long as
\* no fast record, which leaves min and max alone, is among them.
AvgInRange ==
    cpu.c > 0 /\ "fast" \notin kinds =>
        cpu.min_u * cpu.c <= cpu.sum /\ cpu.sum < (cpu.max_u + 1) * cpu.c

\* A timer accounts for exactly the time between its first and its last stamp,
\* whatever is recorded in between and even if the clock goes back.
TimerExact ==
    cpu.sum = direct.sum + (IF last = 0 THEN 0 ELSE last - first)

=============================================================================
