SPECIFICATION FairSpec
CONSTANTS
  Panels = {r1}
  Forms = {f1}
  Topics = {t1}
  MaxPosts = 3
  MaxFaults = 1
INVARIANTS TypeOK ScoreCountsSignals ActionTellsBoard OverrideVisible PanelToldIsRecorded PanelUsable
PROPERTY PageAnswered
CHECK_DEADLOCK FALSE
