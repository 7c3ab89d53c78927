------------------------ MODULE MCNotificationQueue ------------------------
(***************************************************************************)
(* Instances of NotificationQueue for TLC: two notifications of a reminder *)
(* each, or three of one reminder of which two share their key.            *)
(***************************************************************************)
EXTENDS NotificationQueue, TLC

CONSTANTS n1, n2, n3, r1, r2, k1, k2

OwnReminder == n1 :> r1 @@ n2 :> r2
SameReminder == [n \in Notifs |-> r1]

OwnKey == n1 :> k1 @@ n2 :> k2
SharedKey == n1 :> k1 @@ n2 :> k2 @@ n3 :> k1

WorkerSymmetry == Permutations(Workers)
=============================================================================
