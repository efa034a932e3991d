---------------------------- MODULE MessageBook -----------------------------
(***************************************************************************)
(* What a conversation promises about the user's messages: each is taken   *)
(* once, is settled once and for ever, alone or with others in one answer, *)
(* and whatever was taken is settled in the end.                           *)
(***************************************************************************)
CONSTANT Messages

VARIABLE book    \* "new", "taken" or "settled"

Init == book = [m \in Messages |-> "new"]

Take(m) ==
  /\ book[m] = "new"
  /\ book' = [book EXCEPT ![m] = "taken"]

Settle(ms) ==
  /\ \A m \in ms : book[m] = "taken"
  /\ book' = [m \in Messages |-> IF m \in ms THEN "settled" ELSE book[m]]

(* A text that a login takes is settled where it is.                       *)
TakeAndSettle(m) ==
  /\ book[m] = "new"
  /\ book' = [book EXCEPT ![m] = "settled"]

Next ==
  \/ \E m \in Messages : Take(m) \/ TakeAndSettle(m)
  \/ \E ms \in SUBSET Messages : Settle(ms)

Answered == \A m \in Messages : book[m] = "taken" ~> book[m] = "settled"

Spec == Init /\ [][Next]_book /\ Answered
=============================================================================
