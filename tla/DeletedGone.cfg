SPECIFICATION Spec
CONSTANTS
  Msgs = {1, 2}
  Stamp <- MCStamp
  Future = {}
  Deletes = {d1}
  Tickets = {}
  MaxAttempts = 2
  MaxFaults = 0
  None = None
INVARIANT DeletedIsGone
