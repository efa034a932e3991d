--------------------------- MODULE MCCronDelivery ---------------------------
(* Instances of CronDelivery for TLC: two runs of one job, or two runs of  *)
(* one job and one of another.                                             *)
EXTENDS CronDelivery

OneJob == [r \in Runs |-> "a"]
TwoJobs == [r \in Runs |-> IF r = 3 THEN "b" ELSE "a"]
=============================================================================
