SPECIFICATION Spec
CONSTANTS
  Rules = {"P1", "L12", "F1", "L6", "N1", "N2", "N3", "C1"}
  MaxTs = 2
INVARIANTS
  OnlyGatedScoresZero
  BandsNeedBreadth
  ProgressionIsLongest
PROPERTY
  ScoreNeverDrops
CHECK_DEADLOCK FALSE
