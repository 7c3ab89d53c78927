---------------------- MODULE MCConditionalEvaluation ----------------------
(***************************************************************************)
(* An instance of ConditionalEvaluation for TLC: one specification of each *)
(* sort.                                                                   *)
(***************************************************************************)
EXTENDS ConditionalEvaluation, TLC

CONSTANTS w1, w2

Condition(operator, target, percent, edge, cooldown) ==
  [operator |-> operator, target |-> target, percent |-> percent,
   edge |-> edge, cooldown |-> cooldown]

Threshold(reads, condition) ==
  [trigger |-> "threshold", reads |-> reads, price |-> FALSE, period |-> 1,
   legacy |-> FALSE, condition |-> condition]

Price(s) == [s EXCEPT !.price = TRUE]

Legacy(reads, direction, target) ==
  [trigger |-> "threshold", reads |-> reads, price |-> FALSE, period |-> 1,
   legacy |-> TRUE, direction |-> direction, target |-> target]

Digest(trigger) == [trigger |-> trigger, reads |-> {}, price |-> FALSE, period |-> 6]

MCSpecs ==
  {Threshold({0, 1}, Condition("lte", 0, 0, FALSE, 2)),
   Threshold({0, 1}, Condition("gt", 0, 0, TRUE, 2)),
   Threshold({1, 2}, Condition("changed_pct", NoTarget, 60, TRUE, 2)),
   Price(Legacy({0, 1, 2}, "", NoTarget)), Legacy({1}, "sideways", 1),
   Digest("digest"), Digest("rss")}

MCWatchers == {w1, w2}
WatcherSymmetry == Permutations(MCWatchers)
=============================================================================
