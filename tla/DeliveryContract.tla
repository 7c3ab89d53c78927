-------------------------- MODULE DeliveryContract --------------------------
(***************************************************************************)
(* What the queue promises for each notification, whoever delivers it and  *)
(* whatever fails meanwhile: an accepted notification is settled in the    *)
(* end, it is never reported delivered without the user having been sent   *)
(* its message, and never given up before MaxAttempts attempts failed.     *)
(* Withdrawing a notification is no promise of silence: a worker that took *)
(* the message before may still send it, and the last outcome recorded     *)
(* wins.                                                                   *)
(***************************************************************************)
EXTENDS Naturals

CONSTANTS Notifs, MaxAttempts

VARIABLES stage, sends, tries

cvars == <<stage, sends, tries>>

ContractStages == {"new", "open", "delivered", "abandoned", "withdrawn", "forgotten"}

ContractInit ==
  /\ stage = [n \in Notifs |-> "new"]
  /\ sends = [n \in Notifs |-> 0]
  /\ tries = [n \in Notifs |-> 0]

\* The user is sent the message of an accepted notification, or an attempt
\* to send it fails, or both as far as the worker can tell.
Attempt(n) ==
  /\ stage[n] # "new"
  /\ \/ sends' = [sends EXCEPT ![n] = @ + 1] /\ UNCHANGED tries
     \/ tries' = [tries EXCEPT ![n] = @ + 1] /\ UNCHANGED sends
     \/ /\ sends' = [sends EXCEPT ![n] = @ + 1]
        /\ tries' = [tries EXCEPT ![n] = @ + 1]
  /\ UNCHANGED stage

\* The stages a notification may move to, given what was done for it.
MayBecome(n) ==
  CASE stage[n] = "new" -> {"open"}
    [] stage[n] = "forgotten" -> {}
    [] OTHER -> {"forgotten"}
                \cup (IF sends[n] > 0 THEN {"delivered"} ELSE {})
                \cup (IF tries[n] >= MaxAttempts THEN {"abandoned"} ELSE {})
                \cup (IF stage[n] = "open" THEN {"withdrawn"} ELSE {})
                \cup (IF stage[n] = "abandoned" THEN {"open"} ELSE {})

\* Notifications are accepted and settled in transactions of several.
Settle ==
  /\ stage' \in [Notifs -> ContractStages]
  /\ \A n \in Notifs : stage'[n] # stage[n] => stage'[n] \in MayBecome(n)
  /\ UNCHANGED <<sends, tries>>

ContractNext == Settle \/ \E n \in Notifs : Attempt(n)

ContractSpec == ContractInit /\ [][ContractNext]_cvars

\* An accepted notification does not stay open for ever.
EventuallySettled == \A n \in Notifs : stage[n] = "open" ~> stage[n] # "open"
=============================================================================
