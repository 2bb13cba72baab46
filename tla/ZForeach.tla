------------------------------ MODULE ZForeach ------------------------------
(***************************************************************************)
(* zforeach (zforeach.h): visits a window of ids in sub_steps_ calls of    *)
(* window_foreach.  The window may change with every call; the cursor      *)
(* stays where the last call stopped.                                      *)
(***************************************************************************)
EXTENDS Integers, FiniteSets

CONSTANTS WORD,         \* 2^32 of the code's u32
          MaxId,        \* bound: ids are 0 .. MaxId
          Bases, Longs  \* base_frame_len, long_frame_len

ASSUME ForeachAssumption ==
    /\ MaxId \in Nat /\ WORD \in Nat /\ 4 * (MaxId + 1) < WORD
    /\ Bases \subseteq Nat /\ Longs \subseteq Nat

VARIABLES sub,      \* the subframe
          seen,     \* history: how often each id was visited in this round
          steady,   \* history: the ids in every window of this round
          round,    \* history: steady and seen of the last whole round
          below     \* history: a window ended below the hard window

fvars == <<sub, seen, steady, round, below>>

Id == 0 .. MaxId
Never == [i \in Id |-> 0]
In(b, e) == {i \in Id : b <= i /\ i < e}

(* The subframe after memset and sub_steps_ = 1 *)
Blank == [hook |-> FALSE, steps |-> 1, hard_b |-> 0, hard_e |-> 0,
          soft_b |-> 0, soft_e |-> 0, step |-> 0, cursor |-> 0]

(* init: a refused subframe stays blank *)
InitSubframe(begin, end, base, long) ==
    IF base = 0 \/ long = 0 \/ long < base \/ end < begin THEN Blank
    ELSE [hook |-> TRUE, steps |-> (long + base - 1) \div base,
          hard_b |-> begin, hard_e |-> end, soft_b |-> begin, soft_e |-> end,
          step |-> 0, cursor |-> begin]

ForeachInit ==
    /\ \E begin, end \in Id, base \in Bases, long \in Longs :
         /\ sub = InitSubframe(begin, end, base, long)
         /\ steady = In(begin, end)
    /\ seen = Never /\ below = FALSE
    /\ round = [steady |-> {}, seen |-> Never]

IsValid(s) == s.hook /\ s.steps # 0 /\ s.soft_b >= s.hard_b /\ s.soft_e <= s.hard_e

(* zforeach::window_foreach: the window is cut to the hard one *)
SoftWindow(s, b, e) ==
    [s EXCEPT !.soft_b = IF b < s.hard_b THEN s.hard_b ELSE b,
              !.soft_e = IF e > s.hard_e THEN s.hard_e ELSE e]

Share(s) == ((s.soft_e - s.soft_b + s.steps - 1) % WORD) \div s.steps

\* Mutant: the last call of a round stops at its share.
StopAtShare(s, last) ==
    LET end == (s.cursor + Share(s)) % WORD IN
    IF end > s.soft_e THEN s.soft_e ELSE end

(* Where this call stops *)
StopAt(s, last) ==
    LET end == (s.cursor + Share(s)) % WORD IN
    IF last \/ end > s.soft_e THEN s.soft_e ELSE end

(* window_foreach: the cursor moves before the hook is called *)
WindowForeach(b, e) ==
    LET s == SoftWindow(sub, b, e)
        step == (s.step + 1) % s.steps
        end == StopAt(s, step = 0)
        visited == [i \in Id |-> seen[i] + IF i \in In(s.cursor, end) THEN 1 ELSE 0]
        window == In(s.soft_b, s.soft_e)
    IN IF ~IsValid(s)
       THEN sub' = s /\ UNCHANGED <<seen, steady, round, below>>
       ELSE /\ sub' = [s EXCEPT !.step = step,
                                !.cursor = IF step = 0 THEN s.soft_b ELSE end]
            /\ below' = (below \/ e < s.hard_b)
            /\ IF step = 0
               THEN /\ round' = [steady |-> steady \cap window, seen |-> visited]
                    /\ steady' = window /\ seen' = Never
               ELSE /\ seen' = visited /\ steady' = steady \cap window
                    /\ round' = [steady |-> {}, seen |-> Never]

(* resume: the hook is set again, whatever init said *)
Resume == sub' = [sub EXCEPT !.hook = TRUE] /\ UNCHANGED <<seen, steady, round, below>>

ForeachNext ==
    \/ \E b, e \in Id : WindowForeach(b, e)
    \/ Resume

ForeachSpec == ForeachInit /\ [][ForeachNext]_fvars

-----------------------------------------------------------------------------
(* Properties *)

(* An id that was in every window of a round, also in the one the cursor   *)
(* was put back in, is visited exactly once in it, however the window      *)
(* grows and shrinks between the calls.                                    *)
ForeachOnce == \A i \in round.steady : round.seen[i] = 1

(* The hook is never called for an id outside the hard window, as long as  *)
(* no window ended below it.                                               *)
ForeachInside ==
    \A i \in Id : ~below /\ (seen[i] > 0 \/ round.seen[i] > 0)
                  => i \in In(sub.hard_b, sub.hard_e)

(* Whatever the windows of a round are, its steady ids are visited once    *)
(* and nothing outside the hard window is.                                 *)
ForeachSound == ForeachOnce /\ ForeachInside

=============================================================================
