SPECIFICATION FairSpec
CONSTANTS
  Runs = {r1, r2, r3}
  Paths = {1, 2}
  Bodies = {"empty", "long", "short"}
  Passages <- MCPassages
  Headers = {"public", "members", "bad"}
  Refused = {"bad"}
  Uploads <- MCUploads
  Initial <- MCInitial
  Earlier = r0
  Users = {"anonymous", "members"}
  Allowed <- MCAllowed
  MaxEdits = 1
  MaxFaults = 1
CHECK_DEADLOCK FALSE
INVARIANTS
  TierFollowsText
PROPERTIES
  ImplementsCorpus
  SoloRunIndexes
  RunsEnd
