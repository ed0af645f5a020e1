\* A BO1 draft, two client commands and two deadline workers.
CONSTANTS
  c1 = c1
  c2 = c2
  w1 = w1
  w2 = w2
  web = web
  crypto = crypto
  reverse = reverse
  Pool = {web, crypto, reverse}
  Turns = 2
  TurnDuration = 1
  Commands = {c1, c2}
  Workers = {w1, w2}
  Horizon = 2
  MaxFaults = 1
SPECIFICATION FairSpec
INVARIANTS TurnsInTime AnswersTrue ReadyWithDraft
PROPERTIES CancelledIsFinal FollowsRules DraftEnds
\* The bounds stop the clock, and the clients may all have been answered.
CHECK_DEADLOCK FALSE
