-------------------------------- MODULE Ids --------------------------------
(***************************************************************************)
(* The entry ids of a Record<kInst, kReserve, kDeclare> (zprof_record.h):  *)
(* id 0 is kInnerNull (the shared temporary entry), the ids below          *)
(* kInnerMax are the profiler's own entries, then come kReserve entries    *)
(* that Init registers and kDeclare entries that the client registers.     *)
(* The code has kInnerMax = 18; the models take it as a parameter.         *)
(***************************************************************************)
EXTENDS Integers

CONSTANTS kInnerMax, kReserve, kDeclare

ASSUME IdsAssumption ==
    /\ kInnerMax \in Nat /\ kInnerMax > 1
    /\ kReserve \in Nat
    /\ kDeclare \in Nat

kInnerNull == 0

begin_id == kInnerNull + 1

reserve_begin_id == kInnerMax

reserve_end_id == reserve_begin_id + kReserve

declare_begin_id == reserve_end_id

declare_end_id == declare_begin_id + kDeclare

end_id == declare_end_id

\* The ids a client may name in Bind* and ResetChilds (the code's range check).
Id == begin_id .. end_id - 1

Id0 == kInnerNull .. end_id - 1

=============================================================================
