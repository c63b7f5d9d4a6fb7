SPECIFICATION Spec
CONSTANTS
  Runs = {r1}
  Paths = {1, 2}
  Bodies = {"empty", "long", "short"}
  Passages <- MCPassages
  Headers = {"public", "members", "bad"}
  Refused = {"bad"}
  Uploads <- MCUploads
  Initial <- MCInitial
  Earlier = r0
  Users = {"anonymous", "members"}
  Allowed <- MCAllowed
  MaxEdits = 1
  MaxFaults = 1
CHECK_DEADLOCK FALSE
INVARIANT JobTellsErrors
