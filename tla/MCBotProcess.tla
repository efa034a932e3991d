---------------------------- MODULE MCBotProcess ----------------------------
(* An instance of BotProcess for TLC: one file and one skill in the        *)
(* platform store; two users who trust each other no more, a third, and a  *)
(* group that one opens and the other closes.                              *)
EXTENDS BotProcess

Ask(chat, by, op, id) == [chat |-> chat, by |-> by, op |-> op, id |-> id]

SomeRequests ==
  {Ask("u1", "u1", "remove", "u2"), Ask("g", "u2", "remove", "u1"),
   Ask("u2", "u2", "add", "u3"), Ask("g", "u1", "add", "g")}

SomeCliRequests == {[op |-> "add", id |-> "u3"], [op |-> "remove", id |-> "u2"]}
=============================================================================
