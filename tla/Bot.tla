-------------------------------- MODULE Bot --------------------------------
(***************************************************************************)
(* A user's dialog and the buttons under a reminder's notifications: two   *)
(* parts that share no variable.  A behavior is one of the part it starts  *)
(* with.                                                                   *)
(***************************************************************************)
EXTENDS Conversation, NotificationActions

VARIABLE part

BotInit ==
  /\ part \in {"dialog", "buttons"} /\ Init /\ ButtonsInit
  /\ part = "dialog" => reminder.status = "active"
BotNext ==
  \/ part = "dialog" /\ Next /\ UNCHANGED <<part, buttonVars>>
  \/ part = "buttons" /\ ButtonsNext /\ UNCHANGED <<part, vars>>
BotSpec == BotInit /\ [][BotNext]_<<part, vars, buttonVars>>
=============================================================================
