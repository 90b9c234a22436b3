\* One agent, two submissions, edits in between, due dates and the sweep.
SPECIFICATION FairSpec
CONSTANTS
  Agent = {a1}
  Content = {k1}
  ConfiguredStages = {"security", "business"}
  SlaHours = 48
  NoCard = NoCard
  MaxRound = 2
CHECK_DEADLOCK FALSE
INVARIANTS
  TypeOK
  ReleasedByAFullRound
  CardFrozenInReview
  ReviewNeverStuck
PROPERTIES
  DecisionsAreFinal
  RefinesLifecycle
  LateTaskIsFlagged
