---------------------------- MODULE MCScheduler -----------------------------
(* Model checking of Scheduler on small instances. *)
EXTENDS Scheduler

Every2 == [kind |-> "every", period |-> 2]
Cron2 == [kind |-> "cron", period |-> 2]

MCExprs == {Every2, Cron2}
MCOneExpr == {Every2}
=============================================================================
