------------------------ MODULE QuarantineLifecycle ------------------------
(***************************************************************************)
(* What the quarantine promises of each item: one life, from the moment a   *)
(* file stands in the quarantine directory under its id to the moment its   *)
(* row is closed, with no way back and no second end.                       *)
(*                                                                         *)
(*   absent -> unrecorded -> held -> leaving -> restored | deleted          *)
(*                                                                         *)
(* unrecorded: a file and no row (quarantine_file before its insert, or for *)
(* ever when the insert is never made); held: a file and an active row;     *)
(* leaving: an active row whose file is gone.                               *)
(***************************************************************************)
CONSTANTS Ids

VARIABLE phase

Phases == {"absent", "unrecorded", "held", "leaving", "restored", "deleted"}

Init == phase = [id \in Ids |-> "absent"]

Move(id, from, to) == phase[id] = from /\ phase' = [phase EXCEPT ![id] = to]

Arrive(id) == Move(id, "absent", "unrecorded")
Record(id) == Move(id, "unrecorded", "held")
Leave(id) == Move(id, "held", "leaving")
Close(id) == \E end \in {"restored", "deleted"} : Move(id, "leaving", end)

Next == \E id \in Ids : Arrive(id) \/ Record(id) \/ Leave(id) \/ Close(id)

Spec == Init /\ [][Next]_phase
=============================================================================
