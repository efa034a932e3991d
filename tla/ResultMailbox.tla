---------------------------- MODULE ResultMailbox ---------------------------
(***************************************************************************)
(* What cron_runs promises about the results in it, whoever delivers them: *)
(* a result is posted once, and is settled once, for ever.  It is settled  *)
(* by itself, or superseded in favour of another pending result of its     *)
(* job, and every posted result is settled in the end.                     *)
(***************************************************************************)
CONSTANTS Runs, Jobs, JobOf

VARIABLE box    \* "empty", "pending" or how the result was settled

Finals == {"delivered", "denied", "no_target", "failed"}

Init == box = [r \in Runs |-> "empty"]

Post(r) ==
  /\ box[r] = "empty"
  /\ box' = [box EXCEPT ![r] = "pending"]

Settle(r, o) ==
  /\ box[r] = "pending"
  /\ box' = [box EXCEPT ![r] = o]

Pending(j) == {r \in Runs : JobOf[r] = j /\ box[r] = "pending"}

SupersedeOthers(r) ==
  /\ box[r] = "pending"
  /\ box' = [q \in Runs |-> IF q \in Pending(JobOf[r]) \ {r}
                            THEN "superseded" ELSE box[q]]

Next == \E r \in Runs :
  Post(r) \/ SupersedeOthers(r) \/ \E o \in Finals : Settle(r, o)

Settled == \A r \in Runs : box[r] = "pending" ~> box[r] # "pending"

Spec == Init /\ [][Next]_box /\ Settled
=============================================================================
