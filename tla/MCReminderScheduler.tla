------------------------ MODULE MCReminderScheduler ------------------------
(***************************************************************************)
(* Instances of ReminderScheduler for TLC: values for its constants that a *)
(* configuration file cannot write down.                                   *)
(***************************************************************************)
EXTENDS ReminderScheduler, TLC

CONSTANTS r1, r2, e1

\* One reminder that fires once.
OneShot == [r \in Reminders |-> "absolute"]

\* A one-shot reminder and an anchor.
Mixed == [r \in Reminders |-> IF r \in Anchors THEN "conditional" ELSE "absolute"]

\* Every reminder has a cron.
AllRecurring == [r \in Reminders |-> "recurring"]

\* The first reminder fires at an event's beginning, the second before it.
DifferentLeads == [r \in Reminders |-> IF r = r1 THEN 0 ELSE 1]

\* Events lie ahead of the initial time, one tick apart.
EventTimes == [e \in Events |-> IF e = e1 THEN 2 ELSE 3]

WatcherSymmetry == Permutations(Watchers)
=============================================================================
