\* An ordinary and a deep-research turn of one agent, beside its ticks.
SPECIFICATION FairSpec
CONSTANTS
  t1 = t1  t2 = t2
  Turns = {t1, t2}
  Deep = {t2}
  MaxRounds = 2
  MaxPieces = 2
  MaxCalls = 2
INVARIANTS TypeOK WhatWasShownIsKept
PROPERTIES TurnsEnd
CHECK_DEADLOCK FALSE
