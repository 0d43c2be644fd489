---------------------------- MODULE MCLockedFile ----------------------------
(* Model checking of LockedFile: the file is a set of job names, with the  *)
(* closures of add_job, delete_job and omgb_schedule_cleanup_expired.      *)
EXTENDS LockedFile

CONSTANTS Names

MCValue == {v : v \in SUBSET Names}

AddOp(n) == [v \in MCValue |-> v \cup {n}]

DeleteOp(n) == [v \in MCValue |-> IF n \in v THEN v \ {n} ELSE Failed]

MCOps == {AddOp(n) : n \in Names} \cup {DeleteOp(n) : n \in Names}
=============================================================================
