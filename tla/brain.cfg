\* Two callers, every engine configured, a history of three entries.
SPECIFICATION FairSpec
CONSTANTS
  c1 = c1  c2 = c2  c3 = c3
  Callers <- TwoCallers
  Clients = {"local", "openrouter", "support"}
  Limit = 3
  Models = 2
  MaxFaults = 1
INVARIANTS TypeOK HistoryIsBounded RepliesAreRemembered
PROPERTIES QuestionsReturn
CHECK_DEADLOCK FALSE
