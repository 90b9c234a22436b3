\* Two requests at a time, two submissions, every path to release.
SPECIFICATION Spec
CONSTANTS
  Request = {r1, r2}
  Content = {k1}
  ConfiguredStages = {"security", "business"}
  SlaHours = 0
  Kind = {"register", "submit", "move", "decide"}
  MaxRound = 2
  NoContent = NoContent
  Nobody = Nobody
SYMMETRY Symmetry
CHECK_DEADLOCK FALSE
INVARIANTS
  ReleasedWasEndorsed
