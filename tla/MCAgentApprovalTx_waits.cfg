\* Two requests of any kind at a time under fair scheduling.
SPECIFICATION FairSpec
CONSTANTS
  Request = {r1, r2}
  Content = {k1}
  ConfiguredStages = {"security", "business"}
  SlaHours = 48
  Kind = {"register", "update", "submit", "move", "decide", "sweep"}
  MaxRound = 1
  NoContent = NoContent
  Nobody = Nobody
CHECK_DEADLOCK FALSE
PROPERTIES
  RequestsEnd
