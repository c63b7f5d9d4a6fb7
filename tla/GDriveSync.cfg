SPECIFICATION Spec
CONSTANTS
  Order <- MCOrder
  Kind <- MCKind
  Names <- MCNames
  Initial = {"doc", "essay", "grid", "pic"}
  Large = {"essay", "grid"}
  Images = {"i"}
  MaxChanges = 2
  MaxFaults = 1
INVARIANTS
  TypeOK
  ExitZeroMeansMirrored
  RecoversInTwoRuns
  GoneIsArchived
PROPERTIES
  CompletesUnlessDisturbed
