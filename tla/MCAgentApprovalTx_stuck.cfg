\* The last two approvals of a round, neither seeing the other.
SPECIFICATION Spec
CONSTANTS
  Request = {r1, r2}
  Content = {k1}
  ConfiguredStages = {"security", "business"}
  SlaHours = 0
  Kind = {"register", "submit", "decide"}
  MaxRound = 1
  NoContent = NoContent
  Nobody = Nobody
CHECK_DEADLOCK FALSE
INVARIANTS
  DecidedReviewEnds
