-------------------------------- MODULE MCBot --------------------------------
(* A dialog of two handlers of updates, and two taps on the buttons. *)
EXTENDS Bot, TLC
CONSTANTS h1, h2, t1, t2

MCHandlers == {h1, h2}
MCTaps == {t1, t2}
BotSymmetry == Permutations(MCHandlers) \cup Permutations(MCTaps)

Draft(kind, trigger, type, title, params, condition, cron, fireAt, missing) ==
  [kind |-> kind, trigger |-> trigger, type |-> type, title |-> title, params |-> params,
   message |-> "call", condition |-> condition, cron |-> cron, fireAt |-> fireAt,
   missing |-> missing, understood |-> TRUE]
MCPollCron == [every |-> 2, at |-> 0]
MCParses ==
  {Draft("absolute", "", "", None, <<>>, None, None, 1, <<>>),
   Draft("absolute", "", "", None, <<>>, None, None, 1, <<"text">>),
   Draft("", "threshold", "price", None, [url |-> 1], None, None, None, <<>>),
   Draft("conditional", "anchor", "weather", None, <<>>, None, MCPollCron, None, <<>>),
   Draft("conditional", "digest", "rss", None, [url |-> 11], None, MCPollCron, None, <<>>),
   Draft("conditional", "soon", "other", "title", <<>>, None, None, None, <<>>)}
MCConditions == {[valid |-> TRUE, target |-> 5]}
=============================================================================
