SPECIFICATION FairSpec
CONSTANTS
  Msgs = {1, 2}
  Stamp <- MCStamp
  Future = {}
  Deletes = {d1}
  Tickets = {t1}
  MaxAttempts = 2
  MaxFaults = 2
  None = None
INVARIANT TypeOK
INVARIANT AckedIsStored
INVARIANT IndexSound
INVARIANT TicketHasConversation
PROPERTY ImplementsTranscript
PROPERTY RequestsAnswered
