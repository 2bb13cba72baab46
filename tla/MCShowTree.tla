----------------------------- MODULE MCShowTree -----------------------------
(***************************************************************************)
(* ShowTree for TLC, with two clients.  The report client registers,       *)
(* renames, binds and prints in any order, sets its output before it binds *)
(* and records nothing.  The reset client prints nothing: it names its     *)
(* entries well, registers them one after the other, and then binds,       *)
(* records and resets.                                                     *)
(***************************************************************************)
EXTENDS ShowTree

VARIABLE client

MCInit == Init /\ client \in {"report", "reset"}

ResetClient ==
    /\ UNCHANGED <<output, jumps>> /\ out' = NoOut /\ has'[0] = {}
    /\ \A i \in Id : trait'[i].name = "ok" /\ (active[i] => UNCHANGED <<active[i], trait[i]>>)
    /\ (\E i \in Id : ~active[i]) =>
         /\ active' # active
         /\ \A i, j \in Id : active'[i] /\ j < i => active[j]

MCNext ==
    /\ UNCHANGED client
    /\ Next
    /\ client = "report" => UNCHANGED <<has, error_count>> /\ (output' \/ binds' = 0)
    /\ client = "reset" => ResetClient

MCSpec == MCInit /\ [][MCNext]_<<vars, client>>

=============================================================================
